---- MODULE Spec2Model ----
(***************************************************************************)
(* pyp2p-rdv: a rendezvous-assisted peer-to-peer messaging overlay.        *)
(*                                                                         *)
(* The module models the parts of the repository one at a time, each with  *)
(* its own specification over its own variables (the other parts stay at   *)
(* their initial values):                                                  *)
(*   SpecRdv     rendezvous RequestHandler + PeerDatabase, valid requests  *)
(*   SpecRdvVal  REGISTER validation over well- and ill-formed arguments   *)
(*   SpecPong    PeerConnection keep-alive: PING, PONG, the RTT average    *)
(*   SpecRouter  MessageRouter: SEND, ACK and the ACK watchdog             *)
(*   SpecClient  P2PClient: inbound and outbound connections and the map   *)
(*   SpecPersist PeerDatabase._save and _load: the peers file              *)
(*   SpecTable   PeerTable.upsert_peer over the entries a table can hold   *)
(*   SpecUnreg   UNREGISTER over the tables the database can hold          *)
(*   SpecClose   PeerConnection.close called by several threads            *)
(*   SpecReconcile  P2PClient.reconcile_peer_connections                   *)
(*   SpecPublish MessageRouter.send and publish                            *)
(*   SpecReader  PeerConnection reader loop and _recv_line                 *)
(*   SpecStart   P2PClient.start and shutdown                              *)
(*   SpecShutdown  P2PClient.shutdown, step by step                        *)
(*   SpecDiscover  P2PClient.discover_once and mark_missing_as_stale       *)
(*   SpecHello   PeerServer._handle_connection: the inbound handshake      *)
(*   SpecOutbound  connect_to_peer and connect_outbound                    *)
(*   SpecIncoming  MessageRouter.handle_incoming: inbound SEND and PUB     *)
(*   SpecLife    one established connection: reader, ping thread, BYE      *)
(*               timer and close(), under fair scheduling of the threads   *)
(*   SpecLive    discovery passes next to connections that open and close  *)
(*   SpecWork    two handler threads of the rendezvous service on one      *)
(*               PeerDatabase, statement by statement                      *)
(***************************************************************************)
EXTENDS Integers, Sequences, FiniteSets, TLC

VARIABLES
    db_peers,    \* PeerDatabase.peers: the in-memory list of PeerRecords
    db_file,     \* the content of peers.json as last written by _save
    rdv_now,     \* the rendezvous host's clock, in seconds
    rdv_req,     \* the request last handled by RequestHandler.handle
    rdv_resp,    \* the response handle returned for it
    rdv_found,   \* DISCOVER: the records get_peers handed to the handler
    rdv_regs,    \* history: the REGISTERs answered OK and not unregistered since
    val_args,    \* SpecRdvVal: the REGISTER arguments under test
    peer_table,  \* PeerTable._peers: peer_id -> PeerInfo (or NoPeer)
    pg_now,      \* keep-alive: the client's clock, in ticks of SecondsPerTick
    pg_pending,  \* PeerConnection._pending_pings: msg_id -> send time
    pg_next_id,  \* the number of PINGs sent, which names the next msg_id
    pg_samples,  \* PeerConnection.rtt_samples, in seconds
    pg_last_pong,\* PeerConnection.last_pong_time (NoTime when None)
    pg_last,     \* history: the PONG last handled and what became of it
    rt_now,      \* router: the client's clock, in seconds
    rt_connections, \* the peer_ids of the live-connections map the router reads
    rt_records,  \* the MessageRecords MessageRouter.send created, by msg_id
    rt_history,  \* ClientRuntimeState.outbound_history, as msg_ids
    rt_pending,  \* MessageRouter._pending_acks, as msg_ids
    rt_send,     \* the thread inside MessageRouter.send and where it stands
    rt_inflight, \* the ACKs written by the remote peer and not yet read
    rt_log,      \* history per msg_id: wire writes, ACKs handled, timeouts set
    rt_passes,   \* history: the parity of the number of watchdog passes
    cl_conns,    \* the PeerConnection objects made so far, in order of creation
    cl_map,      \* P2PClient.connections[ConnPeer]: a connection, or 0 when absent
    cl_att,      \* the threads handing a socket over or connecting, by attempt
    pf_text,     \* persistence: the text of peers.json, or NoFile
    pf_loaded,   \* persistence: the list _load returned
    pf_pc,       \* persistence: what was done last (save, load)
    tb_last,     \* history: the upsert_peer call made last and what it met
    un_calls,    \* history: the UNREGISTERs handled, with the table before and after
    cc_stop,     \* close(): PeerConnection._stop_event
    cc_pc,       \* close(): where each calling thread stands in it
    cc_calls,    \* close(): the calls each thread has made
    cc_socket_closes, \* history: the socket.close() calls made
    cc_on_closed, \* history: the on-closed callbacks invoked
    rc_connections, \* reconciliation: the peer_ids in P2PClient.connections
    rc_reachable, \* reconciliation: the peers whose listener accepts a connection
    rc_order,    \* reconciliation: the peer_ids of the table in insertion order
    rc_last,     \* history: the reconciliation pass made last and the peer it met
    pb_last,     \* history: the send or publish call made last and what it met
    pb_pubs,     \* history: the msg_ids of the records publish created
    rd_wire,     \* reader: what the remote peer wrote and recv has not returned yet
    rd_buf,      \* reader: buf of the _recv_line call under way
    rd_sent,     \* history: the messages the remote peer wrote, in order
    rd_taken,    \* history: how much of what was written recv has returned
    rd_passed,   \* history: the messages passed to the message callback, in order
    st_pc,       \* start(): where the calling thread stands in it
    st_running,  \* P2PClient._running
    st_server,   \* PeerServer: whether it listens
    st_threads,  \* the CLI, ACK watchdog, discovery and reconnect threads alive
    st_unconnected, \* whether the table holds a peer no connection was made to
    st_calls,    \* history: the start() calls made, with the rendezvous reply
    sd_pc, \* shutdown(): where the calling thread stands in it
    sd_running, \* shutdown(): P2PClient._running
    sd_server, \* shutdown(): whether the PeerServer listens
    sd_threads, \* shutdown(): the worker, watchdog and CLI threads alive
    sd_map, \* shutdown(): the peer_ids in P2PClient.connections
    sd_open, \* shutdown(): the peers a PeerConnection with an open socket exists for
    sd_log, \* history: what shutdown() has done, in order
    dc_now, \* discovery: the client's clock, in seconds
    dc_order, \* discovery: the peer_ids of the table in insertion order
    dc_last, \* history: the discover_once call made last and what it met
    hs_socks, \* inbound handshake: the sockets accepted, each with its first frame and what became of it
    ob_map, \* outbound connect: P2PClient.connections[ConnPeer], or NoConnection
    ob_atts, \* outbound connect: the connect_to_peer calls made, each with where it stands
    in_msgs, \* inbound dispatch: the SEND and PUB messages handed to handle_incoming, in order
    in_history, \* inbound dispatch: ClientRuntimeState.inbound_history, as msg_ids
    in_log, \* history: what the handlers did, in order: record, callback, ack
    lf_outbound, \* connection life: PeerConnection.is_outbound
    lf_map, \* connection life: whether P2PClient.connections holds the connection
    lf_reader, \* connection life: where the reader thread stands in _loop
    lf_ping, \* connection life: where the ping thread stands in _ping_loop
    lf_timers, \* connection life: the BYE timers started and not yet fired
    lf_remote, \* connection life: whether the remote end is open, closed or reset
    lf_wire, \* connection life: what the remote end sent and recv has not returned yet
    lf_sent, \* history: the number of frames the remote end wrote
    lf_seen, \* history: the kinds of frame and of end-of-stream the reader has met
    lf_log, \* history: the BYE_OK writes, the socket closes and the on-closed calls, in order
    lv_map, \* P2PClient.connections: by peer_id, what the connection's peer is
    wk_pc, \* rendezvous handler threads: where each is in add_peer / remove_peer / get_peers
    wk_req, \* the request each handler thread is serving
    wk_local, \* the list a thread has built and not yet assigned or written
    wk_lock, \* PeerDatabase._lock: 0, or the thread that holds it
    wk_tmp, \* the content of peers.json.tmp
    wk_n  \* the number of requests taken up so far

rdvVars == <<db_peers, db_file, rdv_now, rdv_req, rdv_resp, rdv_found, rdv_regs>>

tableVars == <<peer_table>>

pongVars == <<pg_now, pg_pending, pg_next_id, pg_samples, pg_last_pong, pg_last>>

routerVars == <<rt_now, rt_connections, rt_records, rt_history, rt_pending,
                rt_send, rt_inflight, rt_log, rt_passes>>

connVars == <<cl_conns, cl_map, cl_att>>

persistVars == <<pf_text, pf_loaded, pf_pc>>

closeVars == <<cc_stop, cc_pc, cc_calls, cc_socket_closes, cc_on_closed>>

reconcileVars == <<rc_connections, rc_reachable, rc_order, rc_last>>

publishVars == <<pb_last, pb_pubs>>

readerVars == <<rd_wire, rd_buf, rd_sent, rd_taken, rd_passed>>

startVars == <<st_pc, st_running, st_server, st_threads, st_unconnected, st_calls>>

shutdownVars == <<sd_pc, sd_running, sd_server, sd_threads, sd_map, sd_open, sd_log>>

discoverVars == <<dc_now, dc_order, dc_last>>

helloVars == <<hs_socks>>

outboundVars == <<ob_map, ob_atts>>

incomingVars == <<in_msgs, in_history, in_log>>

lifeVars == <<lf_outbound, lf_map, lf_reader, lf_ping, lf_timers, lf_remote, lf_wire, lf_sent, lf_seen, lf_log>>

liveVars == <<lv_map>>

workVars == <<wk_pc, wk_req, wk_local, wk_lock, wk_tmp, wk_n>>

\* the variables of the specifications that stand alone
aloneVars == <<persistVars, tb_last, un_calls, closeVars, reconcileVars, publishVars,
               readerVars, startVars,
               shutdownVars,
               discoverVars,
               helloVars,
               outboundVars,
               incomingVars,
               lifeVars,
               liveVars,
               workVars>>

vars == <<rdvVars, val_args, tableVars, pongVars, routerVars, connVars, aloneVars>>

\* what the rendezvous service never touches: the state of a client
notRdv == <<tableVars, pongVars, routerVars, connVars, aloneVars>>

\* what the keep-alive of a connection never touches
notPong == <<rdvVars, val_args, routerVars, connVars, aloneVars>>

\* what the message router never touches
notRouter == <<rdvVars, val_args, tableVars, pongVars, connVars, aloneVars>>

\* what making and closing connections never touches
notConn == <<rdvVars, val_args, pongVars, routerVars, aloneVars>>

\* what saving and loading the record file never touches
notPersist == <<rdv_now, rdv_req, rdv_resp, rdv_found, rdv_regs, val_args,
                tableVars, pongVars, routerVars, connVars, tb_last, un_calls,
                closeVars, reconcileVars, publishVars, readerVars, startVars,
    shutdownVars,
    discoverVars,
    helloVars,
    outboundVars,
    incomingVars,
    lifeVars,
    liveVars,
    workVars>>

\* what PeerTable.upsert_peer never touches
notTable == <<rdvVars, val_args, pongVars, routerVars, connVars, persistVars, un_calls,
              closeVars, reconcileVars, publishVars, readerVars, startVars,
    shutdownVars,
    discoverVars,
    helloVars,
    outboundVars,
    incomingVars,
    lifeVars,
    liveVars,
    workVars>>

\* what the rendezvous service never touches when its UNREGISTERs are recorded
notUnreg == <<val_args, tableVars, pongVars, routerVars, connVars, persistVars, tb_last,
              closeVars, reconcileVars, publishVars, readerVars, startVars,
    shutdownVars,
    discoverVars,
    helloVars,
    outboundVars,
    incomingVars,
    lifeVars,
    liveVars,
    workVars>>

\* what PeerConnection.close never touches
notClose == <<rdvVars, val_args, tableVars, pongVars, routerVars, connVars, persistVars,
              tb_last, un_calls, reconcileVars, publishVars, readerVars, startVars,
    shutdownVars,
    discoverVars,
    helloVars,
    outboundVars,
    incomingVars,
    lifeVars,
    liveVars,
    workVars>>

\* what discovery and reconciliation never touch
notReconcile == <<rdvVars, val_args, pongVars, routerVars, connVars, persistVars,
                  tb_last, un_calls, closeVars, publishVars, readerVars, startVars,
    shutdownVars,
    discoverVars,
    helloVars,
    outboundVars,
    incomingVars,
    lifeVars,
    liveVars,
    workVars>>

\* what the router's send and publish never touch
notPublish == <<rdvVars, val_args, pongVars, connVars, persistVars, tb_last, un_calls,
                closeVars, reconcileVars, readerVars, startVars,
    shutdownVars,
    discoverVars,
    helloVars,
    outboundVars,
    incomingVars,
    lifeVars,
    liveVars,
    workVars>>

\* what the reader of a connection never touches
notReader == <<rdvVars, val_args, tableVars, pongVars, routerVars, connVars, persistVars,
               tb_last, un_calls, closeVars, reconcileVars, publishVars, startVars,
    shutdownVars,
    discoverVars,
    helloVars,
    outboundVars,
    incomingVars,
    lifeVars,
    liveVars,
    workVars>>

\* what starting and stopping the client never touches
notStart == <<rdvVars, val_args, tableVars, pongVars, routerVars, connVars, persistVars,
              tb_last, un_calls, closeVars, reconcileVars, publishVars, readerVars,
    shutdownVars,
    discoverVars,
    helloVars,
    outboundVars,
    incomingVars,
    lifeVars,
    liveVars,
    workVars>>

\* what shutdown() and the inbound handoff never touch
notShutdown == <<rdvVars, val_args, tableVars, pongVars, routerVars, connVars, persistVars,
    tb_last, un_calls, closeVars, reconcileVars, publishVars, readerVars,
    startVars,
    discoverVars,
    helloVars,
    outboundVars,
    incomingVars,
    lifeVars,
    liveVars,
    workVars>>

\* what discover_once never touches
notDiscover == <<rdvVars, val_args, pongVars, routerVars, connVars, persistVars, tb_last,
    un_calls, closeVars, reconcileVars, publishVars, readerVars,
    startVars, shutdownVars,
    helloVars,
    outboundVars,
    incomingVars,
    lifeVars,
    liveVars,
    workVars>>

\* what the inbound handshake never touches
notHello == <<rdvVars, val_args, pongVars, routerVars, connVars, persistVars, tb_last,
    un_calls, closeVars, reconcileVars, publishVars, readerVars,
    startVars, shutdownVars, discoverVars,
    outboundVars,
    incomingVars,
    lifeVars,
    liveVars,
    workVars>>

\* what connecting out to a peer never touches
notOutbound == <<rdvVars, val_args, tableVars, pongVars, routerVars, connVars, persistVars,
    tb_last, un_calls, closeVars, reconcileVars, publishVars, readerVars,
    startVars, shutdownVars, discoverVars, helloVars,
    incomingVars,
    lifeVars,
    liveVars,
    workVars>>

\* what the handling of inbound SEND and PUB never touches
notIncoming == <<rdvVars, val_args, tableVars, pongVars, routerVars, connVars, persistVars,
    tb_last, un_calls, closeVars, reconcileVars, publishVars, readerVars,
    startVars, shutdownVars, discoverVars, helloVars, outboundVars,
    lifeVars,
    liveVars,
    workVars>>

\* what the life of one connection never touches, the table and close() apart
notLife == <<rdvVars, val_args, pongVars, routerVars, connVars, persistVars, tb_last,
    un_calls, reconcileVars, publishVars, readerVars, startVars,
    shutdownVars, discoverVars, helloVars, outboundVars, incomingVars,
    liveVars,
    workVars>>

\* what a discovery pass over peers that hold connections never touches
notLive == <<rdvVars, val_args, pongVars, routerVars, connVars, persistVars, tb_last,
    un_calls, closeVars, reconcileVars, publishVars, readerVars,
    startVars, shutdownVars, helloVars, outboundVars, incomingVars,
    lifeVars,
    workVars>>

\* what the handler threads of the rendezvous service never touch
notWork == <<val_args, tableVars, pongVars, routerVars, connVars, persistVars, tb_last,
    un_calls, closeVars, reconcileVars, publishVars, readerVars,
    startVars, shutdownVars, discoverVars, helloVars, outboundVars,
    incomingVars, lifeVars, liveVars>>

Max(a, b) == IF a >= b THEN a ELSE b
Min(a, b) == IF a <= b THEN a ELSE b

(***************************************************************************)
(* Bounds of the model.                                                    *)
(***************************************************************************)
MaxRecords == 2      \* REGISTER is offered while the table holds fewer records
MaxNow == 2          \* the rendezvous clock runs from 0 to MaxNow
MaxPings == 1        \* PINGs a connection sends
MaxPongs == 2        \* PONGs a connection handles
MaxPongNow == 5      \* the keep-alive clock runs from 0 to MaxPongNow ticks
SecondsPerTick == 30 \* the granularity of the keep-alive clock
MaxSends == 1        \* calls of MessageRouter.send
MaxRouterNow == 6    \* the router clock runs from 0 to MaxRouterNow seconds
MaxInbound == 2      \* sockets the PeerServer accepts from the same peer_id

(***************************************************************************)
(* Python values as they arrive in request.args (decoded JSON).  A str is  *)
(* a sequence of characters; a float is kept in tenths.                    *)
(***************************************************************************)
PyNone == [t |-> "none", v |-> 0, s |-> <<>>]
PyMissing == [t |-> "missing", v |-> 0, s |-> <<>>]
PyIntV(n) == [t |-> "int", v |-> n, s |-> <<>>]
PyFloat(tenths) == [t |-> "float", v |-> tenths, s |-> <<>>]
PyStr(chars) == [t |-> "str", v |-> 0, s |-> chars]

\* dict.get(key, default): the default only when the key is absent
ArgsGet(x, default) == IF x.t = "missing" THEN default ELSE x
\* dict.get(key): None when the key is absent
ArgsGetNone(x) == IF x.t = "missing" THEN PyNone ELSE x

Digits == {"0", "1", "2", "3", "4", "5", "6", "7", "8", "9"}
DigitVal(c) ==
    CASE c = "0" -> 0 [] c = "1" -> 1 [] c = "2" -> 2 [] c = "3" -> 3
      [] c = "4" -> 4 [] c = "5" -> 5 [] c = "6" -> 6 [] c = "7" -> 7
      [] c = "8" -> 8 [] c = "9" -> 9

RECURSIVE DecimalVal(_)
DecimalVal(chars) ==
    IF chars = <<>> THEN 0
    ELSE 10 * DecimalVal(SubSeq(chars, 1, Len(chars) - 1)) + DigitVal(chars[Len(chars)])

IsDecimal(chars) == Len(chars) > 0 /\ \A i \in 1..Len(chars) : chars[i] \in Digits

\* int(x) of Python: [ok, v]; ok = FALSE stands for ValueError / TypeError
PyInt(x) ==
    CASE x.t = "int" -> [ok |-> TRUE, v |-> x.v]
      [] x.t = "float" ->
            [ok |-> TRUE,
             v |-> IF x.v >= 0 THEN x.v \div 10 ELSE -((-x.v) \div 10)]
      [] x.t = "str" ->
            IF IsDecimal(x.s) THEN [ok |-> TRUE, v |-> DecimalVal(x.s)]
            ELSE IF Len(x.s) > 1 /\ x.s[1] \in {"-", "+"} /\ IsDecimal(Tail(x.s))
                 THEN [ok |-> TRUE,
                       v |-> IF x.s[1] = "-" THEN -DecimalVal(Tail(x.s))
                             ELSE DecimalVal(Tail(x.s))]
                 ELSE [ok |-> FALSE, v |-> 0]
      [] OTHER -> [ok |-> FALSE, v |-> 0]

\* truthiness of a value, as in `if namespace:`
PyTruthy(x) ==
    CASE x.t = "none" -> FALSE
      [] x.t = "missing" -> FALSE
      [] x.t = "str" -> Len(x.s) > 0
      [] OTHER -> x.v # 0

(***************************************************************************)
(* PeerRecord and PeerDatabase (rendezvous/peer_db.py).                    *)
(***************************************************************************)
\* PeerRecord.is_expired lives in models.py, which is not part of the
\* sources at hand: a record expires when now - registered_at > ttl.
IsExpired(p, now) == now - p.timestamp > p.ttl

\* (mutant) _sweep that removes nothing
Sweep_KeepsAll(peers, now) == peers

\* PeerDatabase._sweep: keep the records that are not expired
Sweep(peers, now) ==
    LET Keep(p) == ~IsExpired(p, now) IN SelectSeq(peers, Keep)

\* PeerDatabase._save: every record as a dict, its timestamp as ISO-8601 text
\* (seconds and UTC offset), written to the file in one atomic replace
SaveRecord(p) ==
    [ip |-> p.ip, port |-> p.port, name |-> p.name, namespace |-> p.namespace,
     ttl |-> p.ttl, observed_ip |-> p.observed_ip, observed_port |-> p.observed_port,
     timestamp |-> [secs |-> p.timestamp, offset |-> "+00:00"]]

Save(peers) == [i \in 1..Len(peers) |-> SaveRecord(peers[i])]

\* PeerDatabase.add_peer: sweep, append; the caller's state then holds the
\* new list, which _save writes out
AddPeer(peers, peer, now) == Append(Sweep(peers, now), peer)

\* (mutant) remove_peer that matches on the ip alone
RemovePeer_IpOnly(peers, ip, namespace) ==
    LET Keep(p) == ~(p.ip = ip) IN SelectSeq(peers, Keep)

\* PeerDatabase.remove_peer: drop the records of (ip, namespace)
RemovePeer(peers, ip, namespace) ==
    LET Keep(p) == ~(p.ip = ip /\ PyStr(p.namespace) = namespace)
    IN SelectSeq(peers, Keep)

\* PeerDatabase.get_peers, after its sweep: all records, or those of a namespace
GetPeers(swept, namespace) ==
    IF PyTruthy(namespace)
    THEN LET Match(p) == PyStr(p.namespace) = namespace IN SelectSeq(swept, Match)
    ELSE swept

(***************************************************************************)
(* PeerDatabase persistence: _save writes the table as JSON text, _load    *)
(* reads it back (rendezvous/peer_db.py).  A JSON value is modelled by the *)
(* characters json.dump writes for it; the object syntax around the        *)
(* values (braces, keys, indentation) is written and read as it is.        *)
(***************************************************************************)
\* a lone surrogate: a character json.loads yields for "\ud800" and UTF-8
\* cannot encode
Surrogate == "U+D800"
Quote == "\""
Backslash == "\\"

RECURSIVE Flatten(_)
Flatten(seqs) == IF seqs = <<>> THEN <<>> ELSE Head(seqs) \o Flatten(Tail(seqs))

\* json.dump of a str with ensure_ascii=False: quotes around it, a
\* backslash before each quote and backslash, everything else as it is
JsonEscape(c) == IF c = Quote \/ c = Backslash THEN <<Backslash, c>> ELSE <<c>>
JsonString(chars) ==
    <<Quote>> \o Flatten([i \in 1..Len(chars) |-> JsonEscape(chars[i])]) \o <<Quote>>

DigitChar(d) ==
    CASE d = 0 -> "0" [] d = 1 -> "1" [] d = 2 -> "2" [] d = 3 -> "3"
      [] d = 4 -> "4" [] d = 5 -> "5" [] d = 6 -> "6" [] d = 7 -> "7"
      [] d = 8 -> "8" [] d = 9 -> "9"

\* json.dump of an int
RECURSIVE NaturalText(_)
NaturalText(n) ==
    IF n < 10 THEN <<DigitChar(n)>>
    ELSE Append(NaturalText(n \div 10), DigitChar(n % 10))
JsonNumber(n) == IF n < 0 THEN <<"-">> \o NaturalText(-n) ELSE NaturalText(n)

JsonNull == <<"n", "u", "l", "l">>

\* json.dump of one value
JsonDump(x) ==
    CASE x.t = "none" -> JsonNull
      [] x.t = "int" -> JsonNumber(x.v)
      [] x.t = "str" -> JsonString(x.s)

\* json.load of a string body: a backslash stands for the character after it
RECURSIVE JsonUnescape(_)
JsonUnescape(text) ==
    IF text = <<>> THEN <<>>
    ELSE IF Head(text) = Backslash
         THEN <<text[2]>> \o JsonUnescape(SubSeq(text, 3, Len(text)))
         ELSE <<Head(text)>> \o JsonUnescape(Tail(text))

\* json.load of one value
JsonLoad(text) ==
    IF text = JsonNull THEN PyNone
    ELSE IF Head(text) = Quote
         THEN PyStr(JsonUnescape(SubSeq(text, 2, Len(text) - 1)))
    ELSE IF Head(text) = "-" THEN PyIntV(0 - DecimalVal(Tail(text)))
    ELSE PyIntV(DecimalVal(text))

\* the file is opened with encoding="utf-8": writing a lone surrogate
\* raises UnicodeEncodeError
Utf8Encodable(text) == \A i \in 1..Len(text) : text[i] # Surrogate

\* _load: a trailing "Z" becomes "+00:00", then datetime.fromisoformat
\* of a UTC offset: the aware instant, in seconds
FromIso(iso) == IF iso.offset \in {"Z", "+00:00"} THEN iso.secs ELSE -1

\* the text json.dump writes for one dict of the payload; the ip strings
\* are digits and dots, which are written as they are
DumpRecord(d) ==
    [ip |-> JsonString(<<d.ip>>), port |-> JsonNumber(d.port),
     name |-> JsonDump(d.name), namespace |-> JsonString(d.namespace),
     ttl |-> JsonNumber(d.ttl), observed_ip |-> JsonString(<<d.observed_ip>>),
     observed_port |-> JsonNumber(d.observed_port), timestamp |-> d.timestamp]

\* every character the file would hold for a record
RecordText(e) ==
    e.ip \o e.port \o e.name \o e.namespace \o e.ttl \o e.observed_ip \o e.observed_port

\* _save: the payload as text; raises = TRUE when the write raises and
\* os.replace is not reached, so that peers.json stays what it was
SaveText(peers) ==
    LET text == [i \in 1..Len(peers) |-> DumpRecord(SaveRecord(peers[i]))]
    IN [raises |-> \E i \in 1..Len(text) : ~Utf8Encodable(RecordText(text[i])),
        text |-> text]

\* _load: PeerRecord(**data) for one entry of the file
LoadRecord(e) ==
    [ip |-> JsonLoad(e.ip).s[1], port |-> JsonLoad(e.port).v,
     name |-> JsonLoad(e.name), namespace |-> JsonLoad(e.namespace).s,
     ttl |-> JsonLoad(e.ttl).v, timestamp |-> FromIso(e.timestamp),
     observed_ip |-> JsonLoad(e.observed_ip).s[1],
     observed_port |-> JsonLoad(e.observed_port).v]

\* _load: no file, no records
Load(file) ==
    IF ~file.exists THEN <<>>
    ELSE [i \in 1..Len(file.entries) |-> LoadRecord(file.entries[i])]

(***************************************************************************)
(* RequestHandler.handle (rendezvous/request_handler.py).                  *)
(***************************************************************************)
NoRecords == <<>>

Response(status, error, message, ttl, oip, oport, peers) ==
    [status |-> status, error |-> error, message |-> message, ttl |-> ttl,
     observed_ip |-> oip, observed_port |-> oport, peers |-> peers]

ErrorCode(code) == Response("ERROR", code, "", 0, "", 0, NoRecords)

\* (mutant) a clamp that only caps the ttl from above
ClampTtl_NoFloor(t) == IF t > 86400 THEN 86400 ELSE t

\* the ttl clamp of REGISTER: 1 .. 86400
ClampTtl(t) == IF t < 1 \/ t > 86400 THEN Max(1, Min(t, 86400)) ELSE t

\* the namespace test of REGISTER: a str of 1..64 characters
NamespaceOk(ns) == ns.t = "str" /\ Len(ns.s) > 0 /\ ~(Len(ns.s) > 64)

\* (mutant) a port test that lets port 0 through
PortOk_ZeroAllowed(port) == PyInt(port).ok /\ 0 <= PyInt(port).v /\ PyInt(port).v <= 65535

\* the port test of REGISTER: int(port) within 1..65535
PortOk(port) == PyInt(port).ok /\ 1 <= PyInt(port).v /\ PyInt(port).v <= 65535

\* the validation verdict of REGISTER, in the order the handler tests:
\* ttl first, then namespace, then port
RegisterVerdict(ns, port, ttl) ==
    IF ~PyInt(ArgsGet(ttl, PyIntV(7200))).ok THEN "bad_ttl"
    ELSE IF ~NamespaceOk(ArgsGetNone(ns)) THEN "bad_namespace"
    ELSE IF ~PortOk(ArgsGetNone(port)) THEN "bad_port"
    ELSE "OK"

\* the PeerRecord REGISTER builds once the arguments passed validation
NewRecord(ip, oport, ns, name, port, ttl, now) ==
    [ip |-> ip, port |-> PyInt(port).v, name |-> name, namespace |-> ns.s,
     ttl |-> ClampTtl(PyInt(ArgsGet(ttl, PyIntV(7200))).v), timestamp |-> now,
     observed_ip |-> ip, observed_port |-> oport]

\* one entry of the DISCOVER peer list
DiscoverEntry(p) ==
    [ip |-> p.ip, port |-> p.port, name |-> p.name, namespace |-> p.namespace,
     ttl |-> p.ttl, observed_ip |-> p.observed_ip, observed_port |-> p.observed_port]

Request(cmd, ip, ns, name, port, ttl) ==
    [cmd |-> cmd, ip |-> ip, namespace |-> ns, name |-> name, port |-> port,
     ttl |-> ttl, at |-> rdv_now]

RegKey(p) ==
    [ip |-> p.ip, port |-> p.port, name |-> p.name, namespace |-> p.namespace,
     ttl |-> p.ttl, t0 |-> p.timestamp]

\* str(e) of the UnicodeEncodeError _save lets through
SaveError == "surrogates not allowed"

\* handle(REGISTER ...)
Register(ip, oport, ns, name, port, ttl) ==
    LET verdict == RegisterVerdict(ns, port, ttl)
        peer == NewRecord(ip, oport, ns, name, port, ttl, rdv_now)
    IN /\ rdv_req' = Request("REGISTER", ip, ns, name, port, ttl)
       /\ IF verdict # "OK"
          THEN /\ rdv_resp' = ErrorCode(verdict)
               /\ UNCHANGED <<db_peers, db_file, rdv_regs>>
          ELSE /\ db_peers' = AddPeer(db_peers, peer, rdv_now)
               /\ IF SaveText(db_peers').raises
                  THEN /\ rdv_resp' = Response("ERROR", "", SaveError, 0, "", 0, NoRecords)
                       /\ UNCHANGED <<db_file, rdv_regs>>
                  ELSE /\ db_file' = Save(db_peers')
                       /\ rdv_resp' = Response("OK", "", "", peer.ttl, peer.observed_ip,
                                               peer.observed_port, NoRecords)
                       /\ rdv_regs' = rdv_regs \cup {RegKey(peer)}
       /\ rdv_found' = NoRecords
       /\ UNCHANGED rdv_now

\* handle(DISCOVER ...)
Discover(ip, ns) ==
    LET swept == Sweep(db_peers, rdv_now)
        found == GetPeers(swept, ArgsGetNone(ns))
    IN /\ rdv_req' = Request("DISCOVER", ip, ns, "", PyMissing, PyMissing)
       /\ db_peers' = swept
       /\ rdv_found' = found
       /\ rdv_resp' = Response("OK", "", "", 0, "", 0,
                               [i \in 1..Len(found) |-> DiscoverEntry(found[i])])
       /\ UNCHANGED <<db_file, rdv_now, rdv_regs>>

\* handle(UNREGISTER ...)
Unregister(ip, ns) ==
    /\ rdv_req' = Request("UNREGISTER", ip, ns, "", PyMissing, PyMissing)
    /\ db_peers' = RemovePeer(db_peers, ip, ArgsGetNone(ns))
    /\ IF SaveText(db_peers').raises
       THEN /\ rdv_resp' = Response("ERROR", "", SaveError, 0, "", 0, NoRecords)
            /\ UNCHANGED db_file
       ELSE /\ db_file' = Save(db_peers')
            /\ rdv_resp' = Response("OK", "", "", 0, "", 0, NoRecords)
    /\ rdv_regs' = {g \in rdv_regs :
                        ~(g.ip = ip /\ PyStr(g.namespace) = ArgsGetNone(ns))}
    /\ rdv_found' = NoRecords
    /\ UNCHANGED rdv_now

\* handle(any other command)
UnknownCommand(ip) ==
    /\ rdv_req' = Request("PING", ip, PyMissing, "", PyMissing, PyMissing)
    /\ rdv_resp' = Response("ERROR", "", "Unknown command", 0, "", 0, NoRecords)
    /\ rdv_found' = NoRecords
    /\ UNCHANGED <<db_peers, db_file, rdv_now, rdv_regs>>

\* time passes on the rendezvous host
RdvTick ==
    /\ rdv_now < MaxNow
    /\ rdv_now' = rdv_now + 1
    /\ UNCHANGED <<db_peers, db_file, rdv_req, rdv_resp, rdv_found, rdv_regs>>

RdvInit ==
    /\ db_peers = <<>>
    /\ db_file = <<>>
    /\ rdv_now = 0
    /\ rdv_req = Request("NONE", "", PyMissing, "", PyMissing, PyMissing)
    /\ rdv_resp = Response("NONE", "", "", 0, "", 0, NoRecords)
    /\ rdv_found = NoRecords
    /\ rdv_regs = {}

\* peers.json before anything was written
NoFile == [exists |-> FALSE, entries |-> <<>>]

PersistIdle ==
    /\ pf_text = NoFile
    /\ pf_loaded = <<>>
    /\ pf_pc = "idle"

\* no upsert_peer call was made yet
TableHistIdle == tb_last = [n |-> 0]

\* the specifications that stand alone, before anything happened
\* the threads that call close() on a started outbound connection: its
\* reader (the finally of _loop), its ping thread (a PING that could not be
\* sent) and the orchestrator (shutdown, the BYE timer, a failed send)
Closers == {"reader", "ping", "orchestrator"}

\* a started connection nobody has closed
CloseIdle ==
    /\ cc_stop = FALSE
    /\ cc_pc = [t \in Closers |-> "out"]
    /\ cc_calls = [t \in Closers |-> 0]
    /\ cc_socket_closes = 0
    /\ cc_on_closed = 0

\* no peer discovered, no reconciliation pass made
ReconcileIdle ==
    /\ rc_connections = {}
    /\ rc_reachable = {}
    /\ rc_order = <<>>
    /\ rc_last = [n |-> 0, peer |-> "", reachable |-> FALSE, before |-> 0, after |-> 0,
                  eligible |-> {}, attempted |-> {}, stamped |-> FALSE, raised |-> FALSE]

\* no send or publish call made
PublishIdle ==
    /\ pb_last = [n |-> 0, op |-> "none"]
    /\ pb_pubs = {}

\* an established connection nothing was written to
ReaderIdle ==
    /\ rd_wire = <<>>
    /\ rd_buf = <<>>
    /\ rd_sent = <<>>
    /\ rd_taken = 0
    /\ rd_passed = <<>>

\* a P2PClient that was constructed and not started
StartIdle ==
    /\ st_pc = "out"
    /\ st_running = FALSE
    /\ st_server = FALSE
    /\ st_threads = {}
    /\ st_unconnected = FALSE
    /\ st_calls = <<>>

\* a P2PClient that was constructed and not started
ShutdownIdle ==
    /\ sd_pc = "out"
    /\ sd_running = FALSE
    /\ sd_server = FALSE
    /\ sd_threads = {}
    /\ sd_map = {}
    /\ sd_open = {}
    /\ sd_log = <<>>

\* no discover_once call made
DiscoverIdle ==
    /\ dc_now = 0
    /\ dc_order = <<>>
    /\ dc_last = [n |-> 0, ok |-> FALSE, result |-> {}, at |-> 0, raised |-> FALSE]

\* no socket accepted by the PeerServer
HelloIdle ==
    /\ hs_socks = <<>>

\* no outbound connect made
OutboundIdle ==
    /\ ob_map = [kind |-> "none", att |-> 0]
    /\ ob_atts = <<>>

\* no SEND or PUB handled yet
IncomingIdle ==
    /\ in_msgs = <<>>
    /\ in_history = <<>>
    /\ in_log = <<>>

\* no connection established yet
LifeIdle ==
    /\ lf_outbound = FALSE
    /\ lf_map = FALSE
    /\ lf_reader = "unstarted"
    /\ lf_ping = "none"
    /\ lf_timers = 0
    /\ lf_remote = "open"
    /\ lf_wire = <<>>
    /\ lf_sent = 0
    /\ lf_seen = {}
    /\ lf_log = <<>>

\* no connection in the live-connections map
LiveIdle ==
    /\ lv_map = <<>>

\* no handler thread of the rendezvous service is at work
WorkIdle ==
    /\ wk_pc = <<"idle", "idle">>
    /\ wk_req = [w \in {1, 2} |-> [cmd |-> "NONE", ip |-> "", namespace |-> <<>>, peer |-> <<>>]]
    /\ wk_local = <<<<>>, <<>>>>
    /\ wk_lock = 0
    /\ wk_tmp = <<>>
    /\ wk_n = 0

AloneIdle ==
    /\ PersistIdle /\ TableHistIdle /\ un_calls = <<>> /\ CloseIdle /\ ReconcileIdle
    /\ PublishIdle /\ ReaderIdle /\ StartIdle /\ ShutdownIdle /\ DiscoverIdle /\ HelloIdle /\ OutboundIdle /\ IncomingIdle /\ LifeIdle /\ LiveIdle /\ WorkIdle

(***************************************************************************)
(* PeerInfo and PeerTable (client/state.py, client/peer_table.py).         *)
(***************************************************************************)
PeerIds == {"bob@CIC", "carol@LAB"}
LocalPeerId == "alice@CIC"

NoTime == [at |-> -1, aware |-> FALSE]
\* datetime.now(timezone.utc): an aware datetime
AwareTime(t) == [at |-> t, aware |-> TRUE]
\* datetime.now(): a naive datetime
NaiveTime(t) == [at |-> t, aware |-> FALSE]

\* Optional[float] average_rtt_ms: None, or the exact fraction n / d
NoRtt == [set |-> FALSE, n |-> 0, d |-> 1]

RECURSIVE Gcd(_, _)
Gcd(a, b) == IF b = 0 THEN a ELSE Gcd(b, a % b)

Fraction(n, d) ==
    LET g == Gcd(n, d) IN [set |-> TRUE, n |-> n \div g, d |-> d \div g]

\* PeerInfo(...) with the dataclass defaults for the fields not given
PeerInfo(peer_id, address, port, namespace, status, last_seen_at) ==
    [peer_id |-> peer_id, address |-> address, port |-> port,
     namespace |-> namespace, status |-> status, last_seen_at |-> last_seen_at,
     average_rtt_ms |-> NoRtt, reconnect_attempts |-> 0]

NoPeer == PeerInfo("", "", 0, "", "UNKNOWN", NoTime)

\* (mutant) an upsert_peer that stores the incoming PeerInfo in every case
UpsertPeer_Replaces(table, peer) == [table EXCEPT ![peer.peer_id] = peer]

\* PeerTable.upsert_peer: the table after the call
UpsertPeer(table, peer) ==
    IF table[peer.peer_id] = NoPeer
    THEN [table EXCEPT ![peer.peer_id] = peer]
    ELSE [table EXCEPT ![peer.peer_id] =
            [@ EXCEPT !.address = peer.address,
                      !.port = peer.port,
                      !.namespace = peer.namespace,
                      !.last_seen_at = peer.last_seen_at,
                      !.status = IF @ # "CONNECTED" THEN peer.status ELSE @]]

\* PeerTable.upsert_peer: its result, True for a peer_id not yet in the table
UpsertIsNew(table, peer) == table[peer.peer_id] = NoPeer

\* PeerTable.mark_stale
MarkStale(table, peer_id) ==
    IF table[peer_id] # NoPeer
    THEN [table EXCEPT ![peer_id] = [@ EXCEPT !.status = "STALE"]]
    ELSE table

\* the client's connections and router before anything happened
RuntimeIdle ==
    /\ pg_now = 0
    /\ pg_pending = {}
    /\ pg_next_id = 0
    /\ pg_samples = <<>>
    /\ pg_last_pong = NoTime
    /\ pg_last = [n |-> 0, computed |-> FALSE, rtt |-> 0, accepted |-> FALSE]
    /\ rt_now = 0
    /\ rt_connections = {}
    /\ rt_records = <<>>
    /\ rt_history = <<>>
    /\ rt_pending = {}
    /\ rt_send = [pc |-> "idle", msg_id |-> 0, require_ack |-> FALSE]
    /\ rt_inflight = {}
    /\ rt_log = <<>>
    /\ rt_passes = 0
    /\ cl_conns = <<>>
    /\ cl_map = 0
    /\ cl_att = [a \in 0..MaxInbound |-> [pc |-> "idle", conn |-> 0]]

\* the client before anything happened
ClientIdle ==
    /\ peer_table = [id \in PeerIds |-> NoPeer]
    /\ RuntimeIdle

(***************************************************************************)
(* SpecRdv: the rendezvous service under well-formed requests.             *)
(***************************************************************************)
\* the name the registering clients give
Alice == PyStr(<<"a", "l", "i", "c", "e">>)

NsCIC == <<"C", "I", "C">>
NsLAB == <<"L", "A", "B">>
\* the registering clients: their transport address and their namespace
Clients == {<<"10.0.0.1", NsCIC>>, <<"10.0.0.1", NsLAB>>, <<"10.0.0.2", NsCIC>>}
ObservedPort == 50000
ValidPorts == {PyIntV(6000)}
ValidTtls == {PyIntV(1), PyMissing}
DiscoverNamespaces == {PyStr(NsCIC), PyMissing, PyStr(<<>>)}

NoArgs == [ns |-> PyMissing, port |-> PyMissing, ttl |-> PyMissing]

RdvRegister ==
    /\ Len(db_peers) < MaxRecords
    /\ \E c \in Clients, port \in ValidPorts, ttl \in ValidTtls :
           Register(c[1], ObservedPort, PyStr(c[2]), Alice, port, ttl)
    /\ UNCHANGED <<val_args, notRdv>>

RdvDiscover ==
    /\ \E ns \in DiscoverNamespaces : Discover("10.0.0.3", ns)
    /\ UNCHANGED <<val_args, notRdv>>

RdvUnregister ==
    /\ \/ \E c \in Clients : Unregister(c[1], PyStr(c[2]))
       \/ Unregister("10.0.0.1", PyMissing)
    /\ UNCHANGED <<val_args, notRdv>>

RdvUnknown == UnknownCommand("10.0.0.3") /\ UNCHANGED <<val_args, notRdv>>

RdvClock == RdvTick /\ UNCHANGED <<val_args, notRdv>>

RdvNext == RdvRegister \/ RdvDiscover \/ RdvUnregister \/ RdvUnknown \/ RdvClock

RdvSpecInit == RdvInit /\ val_args = NoArgs /\ ClientIdle /\ AloneIdle

SpecRdv == RdvSpecInit /\ [][RdvNext]_vars

(***************************************************************************)
(* SpecRdvVal: REGISTER over well- and ill-formed arguments.  The          *)
(* arguments under test are drawn at the start; the table is first seeded  *)
(* by well-formed REGISTERs of another client and aged by the clock.       *)
(***************************************************************************)
Ns64 == [i \in 1..64 |-> "n"]
Ns65 == [i \in 1..65 |-> "n"]
AnyNamespaces == {PyStr(NsCIC), PyStr(Ns64), PyStr(Ns65), PyStr(<<>>), PyNone,
                  PyMissing, PyIntV(7)}
AnyPorts == {PyIntV(1), PyIntV(65535), PyIntV(0), PyIntV(65536), PyIntV(-1),
             PyStr(<<"8", "0">>), PyStr(<<"h", "t", "t", "p">>), PyFloat(80805),
             PyNone, PyMissing}
AnyTtls == {PyIntV(-5), PyIntV(0), PyIntV(1), PyIntV(86400), PyIntV(86401),
            PyStr(<<"2">>), PyStr(<<"2", "h">>), PyFloat(25), PyNone, PyMissing}

ValInit ==
    /\ RdvInit
    /\ val_args \in [ns : AnyNamespaces, port : AnyPorts, ttl : AnyTtls]
    /\ ClientIdle
    /\ AloneIdle

ValSeed ==
    /\ Len(db_peers) < MaxRecords
    /\ Register("10.0.0.2", ObservedPort, PyStr(NsLAB), PyStr(<<"b", "o", "b">>), PyIntV(6000), PyIntV(1))
    /\ UNCHANGED <<val_args, notRdv>>

ValRegister ==
    /\ Len(db_peers) < MaxRecords
    /\ Register("10.0.0.1", ObservedPort, val_args.ns, Alice, val_args.port,
                val_args.ttl)
    /\ UNCHANGED <<val_args, notRdv>>

ValClock == RdvTick /\ UNCHANGED <<val_args, notRdv>>

ValNext == ValSeed \/ ValRegister \/ ValClock

SpecRdvVal == ValInit /\ [][ValNext]_vars

(***************************************************************************)
(* Properties of the rendezvous service.                                   *)
(***************************************************************************)
DiscoverFilterAdmits(ns, namespace) ==
    ns.t \in {"none", "missing"} \/ ns = PyStr(<<>>) \/ ns = PyStr(namespace)

ResponseHolds(g) ==
    \E i \in 1..Len(rdv_resp.peers) :
        /\ rdv_resp.peers[i].ip = g.ip
        /\ rdv_resp.peers[i].port = g.port
        /\ rdv_resp.peers[i].name = g.name
        /\ rdv_resp.peers[i].namespace = g.namespace

\* C7: a DISCOVER (unfiltered, or filtered by the record's namespace) issued
\* no later than ttl seconds after a REGISTER that was answered OK, with no
\* UNREGISTER of its (ip, namespace) in between, returns a record with the
\* registered ip, port, name and namespace.
C7_RegisteredIsDiscovered ==
    rdv_req.cmd = "DISCOVER" =>
        \A g \in rdv_regs :
            (rdv_req.at - g.t0 <= g.ttl /\ DiscoverFilterAdmits(rdv_req.namespace, g.namespace))
                => ResponseHolds(g)

\* C7 witness: a DISCOVER exactly ttl seconds after the REGISTER, filtered by
\* the namespace, found the record
C7_Witness ==
    /\ rdv_req.cmd = "DISCOVER"
    /\ rdv_req.namespace = PyStr(NsCIC)
    /\ \E g \in rdv_regs :
          /\ g.namespace = NsCIC
          /\ g.ttl = 1
          /\ rdv_req.at - g.t0 = g.ttl
          /\ ResponseHolds(g)

\* C8: no DISCOVER response holds a record that is expired at the time of the
\* request (now - registered_at > ttl); the response lists exactly the
\* records the store handed out.
C8_NoExpiredInDiscover ==
    rdv_req.cmd = "DISCOVER" =>
        /\ Len(rdv_resp.peers) = Len(rdv_found)
        /\ \A i \in 1..Len(rdv_found) :
              /\ ~(rdv_req.at - rdv_found[i].timestamp > rdv_found[i].ttl)
              /\ rdv_resp.peers[i].ip = rdv_found[i].ip
              /\ rdv_resp.peers[i].namespace = rdv_found[i].namespace
              /\ rdv_resp.peers[i].ttl = rdv_found[i].ttl

\* C8 witness: a DISCOVER that was issued after one registration had expired
\* and that still returned another, live one
C8_Witness ==
    /\ rdv_req.cmd = "DISCOVER"
    /\ \E g \in rdv_regs : rdv_req.at - g.t0 > g.ttl
    /\ Len(rdv_resp.peers) > 0

ArgIsInt(x) == x.t = "int"
ArgNamespaceValid(x) == x.t = "str" /\ Len(x.s) \in 1..64
ArgPortValid(x) == x.t = "int" /\ x.v \in 1..65535

\* C9: a REGISTER with a valid namespace, a valid port and an integer ttl t is
\* accepted whatever t is, and the ttl stored and returned is
\* max(1, min(t, 86400)).
C9_TtlClamped ==
    (/\ rdv_req.cmd = "REGISTER"
     /\ ArgNamespaceValid(rdv_req.namespace)
     /\ ArgPortValid(rdv_req.port)
     /\ ArgIsInt(rdv_req.ttl))
        => /\ rdv_resp.status = "OK"
           /\ rdv_resp.ttl = Max(1, Min(rdv_req.ttl.v, 86400))
           /\ Len(db_peers) > 0
           /\ db_peers[Len(db_peers)].ttl = Max(1, Min(rdv_req.ttl.v, 86400))
           /\ db_peers[Len(db_peers)].timestamp = rdv_req.at

\* C9 witness: a REGISTER with ttl above the range was accepted
C9_Witness ==
    /\ rdv_req.cmd = "REGISTER"
    /\ rdv_req.ttl = PyIntV(86401)
    /\ rdv_req.namespace = PyStr(Ns64)
    /\ rdv_resp.status = "OK"
    /\ rdv_resp.ttl = 86400

ErrorIs(code) == rdv_resp.status = "ERROR" /\ rdv_resp.error = code

NumericTexts == {<<"8", "0">>, <<"2">>}
IntConvertible(x) == x.t \in {"int", "float"} \/ (x.t = "str" /\ x.s \in NumericTexts)
IntOf(x) ==
    CASE x.t = "int" -> x.v
      [] x.t = "float" -> x.v \div 10
      [] x = PyStr(<<"8", "0">>) -> 80
      [] x = PyStr(<<"2">>) -> 2
      [] OTHER -> 0
PortConvertible(x) == IntConvertible(x) /\ IntOf(x) \in 1..65535

\* the code REGISTER answers for its arguments: the first failing test in the
\* order ttl, namespace, port
ExpectedCode(ns, port, ttl) ==
    IF ~IntConvertible(ttl) THEN "bad_ttl"
    ELSE IF ~ArgNamespaceValid(ns) THEN "bad_namespace"
    ELSE IF ~PortConvertible(port) THEN "bad_port"
    ELSE "OK"

PongPeer == "bob@CIC"
RttMaxSeconds == 60
PingExpirySeconds == 120
RttRing == 10

\* the timestamp field of a PONG: absent, a str (ISO-8601 or not) or a number
TsNone == [t |-> "none", ok |-> FALSE, secs |-> 0]
TsText(ok, secs) == [t |-> "str", ok |-> ok, secs |-> secs]
TsNumber(secs) == [t |-> "float", ok |-> TRUE, secs |-> secs]

Pong(msg_id, ts) == [msg_id |-> msg_id, timestamp |-> ts]

PendingIds == {e.id : e \in pg_pending}
SentTime(id) == (CHOOSE e \in pg_pending : e.id = id).sent

\* _send_ping: a fresh msg_id is recorded with the send time, entries older
\* than 120 s are dropped, the PING is written
SendPing ==
    /\ peer_table[PongPeer] # NoPeer
    /\ pg_next_id < MaxPings
    /\ pg_next_id' = pg_next_id + 1
    /\ pg_pending' =
          {e \in pg_pending \cup {[id |-> pg_next_id + 1, sent |-> pg_now]} :
               ~((pg_now - e.sent) * SecondsPerTick > PingExpirySeconds)}
    /\ UNCHANGED <<peer_table, pg_now, pg_samples, pg_last_pong, pg_last>>

\* the RTT in seconds _handle_pong computes, [ok, rtt, popped]: ok = FALSE when
\* it returns before it has one
PongRtt(msg) ==
    IF msg.msg_id # 0 /\ msg.msg_id \in PendingIds
    THEN [ok |-> TRUE, rtt |-> (pg_now - SentTime(msg.msg_id)) * SecondsPerTick,
          popped |-> TRUE]
    ELSE IF msg.timestamp.t = "none" THEN [ok |-> FALSE, rtt |-> 0, popped |-> FALSE]
    ELSE IF msg.timestamp.t = "str" /\ ~msg.timestamp.ok
         THEN [ok |-> FALSE, rtt |-> 0, popped |-> FALSE]
    ELSE [ok |-> TRUE, rtt |-> (pg_now - msg.timestamp.secs) * SecondsPerTick,
          popped |-> FALSE]

\* the sanity check of _handle_pong
RttRejected(rtt) == rtt < 0 \/ rtt > RttMaxSeconds

\* rtt_samples.append(rtt), keeping the last 10
RingAppend(samples, rtt) ==
    LET more == Append(samples, rtt)
    IN IF Len(more) > RttRing THEN Tail(more) ELSE more

\* (mutant) an average with the weights exchanged
Ema_WeightsSwapped(avg, rtt_ms) ==
    IF ~avg.set THEN Fraction(rtt_ms, 1)
    ELSE Fraction(7 * rtt_ms * avg.d + 3 * avg.n, 10 * avg.d)

\* the exponential moving average, alpha = 0.3
Ema(avg, rtt_ms) ==
    IF ~avg.set THEN Fraction(rtt_ms, 1)
    ELSE Fraction(3 * rtt_ms * avg.d + 7 * avg.n, 10 * avg.d)

\* _handle_pong
HandlePong(msg) ==
    LET r == PongRtt(msg)
        accepted == r.ok /\ ~RttRejected(r.rtt)
    IN /\ peer_table[PongPeer] # NoPeer
       /\ pg_last.n < MaxPongs
       /\ pg_last' = [n |-> pg_last.n + 1, computed |-> r.ok, rtt |-> r.rtt,
                      accepted |-> accepted]
       /\ pg_pending' = IF r.popped THEN {e \in pg_pending : e.id # msg.msg_id}
                        ELSE pg_pending
       /\ IF accepted
          THEN /\ pg_samples' = RingAppend(pg_samples, r.rtt)
               /\ pg_last_pong' = NaiveTime(pg_now)
               /\ peer_table' =
                     [peer_table EXCEPT ![PongPeer] =
                        [@ EXCEPT !.average_rtt_ms = Ema(@, r.rtt * 1000),
                                  !.last_seen_at = NaiveTime(pg_now)]]
          ELSE UNCHANGED <<pg_samples, pg_last_pong, peer_table>>
       /\ UNCHANGED <<pg_now, pg_next_id>>

\* the PONGs the remote end may send now: the reply to a PING, or any PONG
\* of its own making
PongInputs ==
    {Pong(id, TsText(TRUE, 0)) : id \in 1..MaxPings}
      \cup {Pong(0, ts) : ts \in {TsNone, TsText(FALSE, 0)}}
      \cup {Pong(0, TsText(TRUE, pg_now - d)) : d \in {-1, 0, 1, 2, 3}}
      \cup {Pong(0, TsNumber(pg_now - d)) : d \in {0, 2}}

PongSendPing == SendPing /\ UNCHANGED notPong

PongReceive == (\E msg \in PongInputs : HandlePong(msg)) /\ UNCHANGED notPong

\* discover_once: the DISCOVER result holds PongPeer, which is upserted
PongDiscover ==
    /\ \E port \in {6000} :
          peer_table' = UpsertPeer(peer_table,
                                   PeerInfo(PongPeer, "10.0.0.2", port, "CIC",
                                            "DISCOVERED", AwareTime(pg_now)))
    /\ UNCHANGED <<pongVars, notPong>>

\* mark_stale / mark_missing_as_stale reach PongPeer
PongMarkStale ==
    /\ peer_table' = MarkStale(peer_table, PongPeer)
    /\ UNCHANGED <<pongVars, notPong>>

PongTick ==
    /\ pg_now < MaxPongNow
    /\ pg_now' = pg_now + 1
    /\ UNCHANGED <<peer_table, pg_pending, pg_next_id, pg_samples, pg_last_pong,
                   pg_last, notPong>>

PongInit == ClientIdle /\ RdvInit /\ val_args = NoArgs /\ AloneIdle

PongNext == PongSendPing \/ PongReceive \/ PongDiscover \/ PongMarkStale \/ PongTick

SpecPong == PongInit /\ [][PongNext]_vars
(***************************************************************************)
(* MessageRouter: SEND, ACK and the ACK watchdog                           *)
(* (client/message_router.py).  Three threads meet here: the thread that   *)
(* calls send (the console), the reader thread of the connection, which    *)
(* hands every ACK to _handle_ack, and the ack-checker thread.             *)
(***************************************************************************)
ACK_TIMEOUT_SECONDS == 5
AckTimeoutError == "ACK timeout (5s)"
OversizeError == "Payload excede 32KiB"
NoError == "None"
RouterPeer == "bob@CIC"

\* MessageRecord(msg_id, src, dst, payload_preview, timestamp)
MessageRecord(msg_id, dst, timestamp) ==
    [msg_id |-> msg_id, src |-> LocalPeerId, dst |-> dst, timestamp |-> timestamp,
     acknowledged |-> FALSE, ack_timestamp |-> NoTime, error |-> NoError]

MsgIds == 1..Len(rt_records)

\* (mutant) a send that does not look the connection up
SendTransmit_NoLookup(dst, require_ack, oversize, wire_ok) ==
    /\ rt_send.pc = "idle"
    /\ Len(rt_records) < MaxSends
    /\ rt_records' = Append(rt_records,
                            MessageRecord(Len(rt_records) + 1, dst, AwareTime(rt_now)))
    /\ rt_log' = Append(rt_log, [require_ack |-> require_ack, tx |-> 1,
                                 acked_at |-> -1, timeouts |-> 0])
    /\ rt_send' = [pc |-> "sent", msg_id |-> Len(rt_records) + 1,
                   require_ack |-> require_ack]
    /\ UNCHANGED <<rt_now, rt_connections, rt_history, rt_pending, rt_inflight, rt_passes>>

\* (mutant) a send_json that tests the size after the write: the oversized
\* frame is written, the error kept, and send goes on to the history
SendTransmit_SizeNotTested(dst, require_ack, oversize, wire_ok) ==
    LET msg_id == Len(rt_records) + 1
        record == MessageRecord(msg_id, dst, AwareTime(rt_now))
    IN /\ rt_send.pc = "idle"
       /\ Len(rt_records) < MaxSends
       /\ IF dst \notin rt_connections
          THEN UNCHANGED routerVars
          ELSE /\ rt_records' = Append(rt_records,
                      [record EXCEPT !.error = IF oversize THEN OversizeError ELSE NoError])
               /\ rt_log' = Append(rt_log, [require_ack |-> require_ack,
                                            tx |-> IF wire_ok THEN 1 ELSE 0,
                                            acked_at |-> -1, timeouts |-> 0])
               /\ rt_connections' = IF wire_ok THEN rt_connections
                                    ELSE rt_connections \ {dst}
               /\ rt_inflight' = IF wire_ok THEN rt_inflight ELSE {}
               /\ rt_send' = [pc |-> "sent", msg_id |-> msg_id,
                              require_ack |-> require_ack]
               /\ UNCHANGED <<rt_now, rt_history, rt_pending, rt_passes>>

\* send, up to the return of connection.send_json: the connection is looked
\* up, the record made, the frame encoded and written.  oversize: the frame
\* exceeds 32 KiB, send_json raises and send keeps the error in the record;
\* wire_ok = FALSE: sendall raises OSError, _send_raw closes the connection
\* and returns normally
SendTransmit(dst, require_ack, oversize, wire_ok) ==
    LET msg_id == Len(rt_records) + 1
        record == MessageRecord(msg_id, dst, AwareTime(rt_now))
    IN /\ rt_send.pc = "idle"
       /\ Len(rt_records) < MaxSends
       /\ IF dst \notin rt_connections
          THEN UNCHANGED routerVars
          ELSE IF oversize
          THEN /\ rt_records' = Append(rt_records, [record EXCEPT !.error = OversizeError])
               /\ rt_log' = Append(rt_log, [require_ack |-> require_ack, tx |-> 0,
                                            acked_at |-> -1, timeouts |-> 0])
               /\ UNCHANGED <<rt_now, rt_connections, rt_history, rt_pending,
                              rt_send, rt_inflight, rt_passes>>
          ELSE /\ rt_records' = Append(rt_records, record)
               /\ rt_log' = Append(rt_log, [require_ack |-> require_ack,
                                            tx |-> IF wire_ok THEN 1 ELSE 0,
                                            acked_at |-> -1, timeouts |-> 0])
               /\ rt_connections' = IF wire_ok THEN rt_connections
                                    ELSE rt_connections \ {dst}
               /\ rt_inflight' = IF wire_ok THEN rt_inflight ELSE {}
               /\ rt_send' = [pc |-> "sent", msg_id |-> msg_id,
                              require_ack |-> require_ack]
               /\ UNCHANGED <<rt_now, rt_history, rt_pending, rt_passes>>

\* send: self.state.outbound_history.append(record)
SendAppend ==
    /\ rt_send.pc = "sent"
    /\ rt_history' = Append(rt_history, rt_send.msg_id)
    /\ rt_send' = [rt_send EXCEPT !.pc = "appended"]
    /\ UNCHANGED <<rt_now, rt_connections, rt_records, rt_pending, rt_inflight, rt_log, rt_passes>>

\* send: if require_ack, self._pending_acks[msg_id] = record; return record
SendRegister ==
    /\ rt_send.pc = "appended"
    /\ rt_pending' = IF rt_send.require_ack THEN rt_pending \cup {rt_send.msg_id}
                     ELSE rt_pending
    /\ rt_send' = [pc |-> "idle", msg_id |-> 0, require_ack |-> FALSE]
    /\ UNCHANGED <<rt_now, rt_connections, rt_records, rt_history, rt_inflight, rt_log, rt_passes>>

\* the remote router's _handle_send: a SEND that arrived with require_ack is
\* answered by one ACK on the same connection
PeerSendsAck(msg_id) ==
    /\ msg_id \in MsgIds
    /\ rt_log[msg_id].tx = 1 /\ rt_log[msg_id].require_ack
    /\ rt_log[msg_id].acked_at = -1
    /\ RouterPeer \in rt_connections
    /\ rt_inflight' = rt_inflight \cup {msg_id}
    /\ UNCHANGED <<rt_now, rt_connections, rt_records, rt_history, rt_pending,
                   rt_send, rt_log, rt_passes>>

\* (mutant) a _handle_ack that marks the record of the msg_id whether or
\* not the pending map still holds it
HandleAck_MarksUnmatched(msg_id) ==
    /\ msg_id \in rt_inflight
    /\ rt_inflight' = rt_inflight \ {msg_id}
    /\ rt_pending' = rt_pending \ {msg_id}
    /\ rt_records' = IF msg_id \in MsgIds
                     THEN [rt_records EXCEPT ![msg_id] =
                             [@ EXCEPT !.acknowledged = TRUE,
                                       !.ack_timestamp = AwareTime(rt_now)]]
                     ELSE rt_records
    /\ rt_log' = IF msg_id \in MsgIds /\ rt_log[msg_id].acked_at = -1
                 THEN [rt_log EXCEPT ![msg_id].acked_at = rt_now]
                 ELSE rt_log
    /\ UNCHANGED <<rt_now, rt_connections, rt_history, rt_send, rt_passes>>

\* _handle_ack, for the ACK of msg_id read by the reader thread (msg_id 0: an
\* ACK that names no message of ours)
HandleAck(msg_id) ==
    /\ msg_id \in rt_inflight
    /\ rt_inflight' = rt_inflight \ {msg_id}
    /\ rt_pending' = rt_pending \ {msg_id}
    /\ rt_records' = IF msg_id \in rt_pending
                     THEN [rt_records EXCEPT ![msg_id] =
                             [@ EXCEPT !.acknowledged = TRUE,
                                       !.ack_timestamp = AwareTime(rt_now)]]
                     ELSE rt_records
    /\ rt_log' = IF msg_id \in MsgIds /\ rt_log[msg_id].acked_at = -1
                 THEN [rt_log EXCEPT ![msg_id].acked_at = rt_now]
                 ELSE rt_log
    /\ UNCHANGED <<rt_now, rt_connections, rt_history, rt_send, rt_passes>>

\* (mutant) a watchdog that waits twice as long
AckExpired_Late(elapsed) == elapsed > 2 * ACK_TIMEOUT_SECONDS

\* _check_ack_timeouts: the test of one pending record
AckExpired(elapsed) == elapsed > ACK_TIMEOUT_SECONDS

\* _check_ack_timeouts: one pass of the watchdog, under _ack_lock
CheckAckTimeouts ==
    LET expired == {m \in rt_pending :
                      AckExpired(rt_now - rt_records[m].timestamp.at)}
    IN /\ rt_pending' = rt_pending \ expired
       /\ rt_records' = [m \in MsgIds |->
                           IF m \in expired
                           THEN [rt_records[m] EXCEPT !.error = AckTimeoutError]
                           ELSE rt_records[m]]
       /\ rt_log' = [m \in MsgIds |->
                       IF m \in expired
                       THEN [rt_log[m] EXCEPT !.timeouts = @ + 1]
                       ELSE rt_log[m]]
       /\ rt_passes' = 1 - rt_passes
       /\ UNCHANGED <<rt_now, rt_connections, rt_history, rt_send, rt_inflight>>

\* connect_to_peer / _handle_inbound_socket register the connection to
\* RouterPeer in the map the router reads
RouterConnect ==
    /\ RouterPeer \notin rt_connections
    /\ rt_connections' = rt_connections \cup {RouterPeer}
    /\ UNCHANGED <<rt_now, rt_records, rt_history, rt_pending, rt_send,
                   rt_inflight, rt_log, rt_passes, notRouter>>

\* _on_connection_closed: the connection is gone from the map, and with its
\* reader whatever it had not read yet
RouterClose ==
    /\ RouterPeer \in rt_connections
    /\ rt_connections' = rt_connections \ {RouterPeer}
    /\ rt_inflight' = {}
    /\ UNCHANGED <<rt_now, rt_records, rt_history, rt_pending, rt_send,
                   rt_log, rt_passes, notRouter>>

RouterSend ==
    /\ \E dst \in PeerIds, require_ack \in BOOLEAN, oversize \in BOOLEAN,
          wire_ok \in BOOLEAN :
          SendTransmit(dst, require_ack, oversize, wire_ok)
    /\ UNCHANGED notRouter

RouterSendAppend == SendAppend /\ UNCHANGED notRouter

RouterSendRegister == SendRegister /\ UNCHANGED notRouter

RouterPeerAck == (\E msg_id \in 1..MaxSends : PeerSendsAck(msg_id)) /\ UNCHANGED notRouter

\* the remote peer writes an ACK that names no message of ours
RouterStrayAck ==
    /\ RouterPeer \in rt_connections
    /\ 0 \notin rt_inflight
    /\ rt_inflight' = rt_inflight \cup {0}
    /\ UNCHANGED <<rt_now, rt_connections, rt_records, rt_history, rt_pending,
                   rt_send, rt_log, rt_passes, notRouter>>

RouterHandleAck == (\E msg_id \in 0..MaxSends : HandleAck(msg_id)) /\ UNCHANGED notRouter

RouterWatchdog == CheckAckTimeouts /\ UNCHANGED notRouter

RouterTick ==
    /\ rt_now < MaxRouterNow
    /\ rt_now' = rt_now + 1
    /\ UNCHANGED <<rt_connections, rt_records, rt_history, rt_pending, rt_send,
                   rt_inflight, rt_log, rt_passes, notRouter>>

RouterInit == ClientIdle /\ RdvInit /\ val_args = NoArgs /\ AloneIdle

RouterNext ==
    \/ RouterConnect \/ RouterClose
    \/ RouterSend \/ RouterSendAppend \/ RouterSendRegister
    \/ RouterPeerAck \/ RouterStrayAck \/ RouterHandleAck
    \/ RouterWatchdog \/ RouterTick

SpecRouter == RouterInit /\ [][RouterNext]_vars

(***************************************************************************)
(* Claims about the keep-alive                                             *)
(***************************************************************************)
\* a PONG has just been handled and _handle_pong computed an RTT for it
PongHandled == pg_last'.n = pg_last.n + 1 /\ pg_last'.computed

AverageRtt(table) == [id \in PeerIds |-> table[id].average_rtt_ms]

\* C5: a PONG whose computed RTT is <= 0 s or > 60 s changes neither the
\* peer's average_rtt_ms nor the rtt_samples ring nor last_pong_time
C5_AsStated ==
    [][(PongHandled /\ (pg_last'.rtt <= 0 \/ pg_last'.rtt > 60))
         => /\ AverageRtt(peer_table') = AverageRtt(peer_table)
            /\ pg_samples' = pg_samples
            /\ pg_last_pong' = pg_last_pong]_vars

\* what the code does keep: a PONG whose RTT is < 0 s or > 60 s changes
\* none of the three
C5_NegativeOrLongDiscarded ==
    [][(PongHandled /\ (pg_last'.rtt < 0 \/ pg_last'.rtt > 60))
         => /\ AverageRtt(peer_table') = AverageRtt(peer_table)
            /\ pg_samples' = pg_samples
            /\ pg_last_pong' = pg_last_pong]_vars

\* a PONG with an RTT of exactly 0 s has been taken as a sample
C5_ZeroAccepted ==
    pg_last.n > 0 /\ pg_last.computed /\ pg_last.rtt = 0 /\ pg_last.accepted

\* C6: a PONG whose sample s (ms) is accepted leaves average_rtt_ms = s when
\* it was unset and = 0.3 * s + 0.7 * previous otherwise (compared as exact
\* fractions); every other step leaves every peer's average_rtt_ms alone
C6_EmaOnlyBySamples ==
    [][LET before == peer_table[PongPeer].average_rtt_ms
           after == peer_table'[PongPeer].average_rtt_ms
           s == pg_last'.rtt * 1000
       IN IF PongHandled /\ pg_last'.accepted
          THEN /\ after.set
               /\ IF ~before.set
                  THEN after.n = s * after.d
                  ELSE 10 * after.n * before.d
                         = after.d * (3 * s * before.d + 7 * before.n)
               /\ \A id \in PeerIds \ {PongPeer} :
                     peer_table'[id].average_rtt_ms = peer_table[id].average_rtt_ms
          ELSE AverageRtt(peer_table') = AverageRtt(peer_table)]_vars

\* two samples were accepted, the second one different from the average
\* the first one left, and the peer was marked stale and rediscovered since
C6_Witness ==
    /\ Len(pg_samples) = 2
    /\ pg_samples[1] # pg_samples[2]
    /\ peer_table[PongPeer].average_rtt_ms.set
    /\ peer_table[PongPeer].average_rtt_ms.n
          # pg_samples[2] * 1000 * peer_table[PongPeer].average_rtt_ms.d
    /\ peer_table[PongPeer].status = "STALE"
(***************************************************************************)
(* Claims about SEND, ACK and the watchdog                                 *)
(***************************************************************************)
\* seconds since the record of msg_id was stamped
Elapsed(msg_id) == rt_now - rt_records[msg_id].timestamp.at

\* the messages send put on the way with require_ack and has returned from
AckWanted ==
    {m \in MsgIds : /\ rt_log[m].require_ack
                    /\ rt_records[m].error # OversizeError
                    /\ rt_send.msg_id # m}

\* the first ACK for msg_id reached _handle_ack, seconds after the send
AckDelay(msg_id) == rt_log[msg_id].acked_at - rt_records[msg_id].timestamp.at
AckHandled(msg_id) == rt_log[msg_id].acked_at # -1

\* C3 as stated: a message sent with require_ack for which no ACK was
\* received within 5 s is taken out of the pending map by the watchdog, with
\* the error "ACK timeout (5s)" set exactly once and no second transmission;
\* so once it is past 5 s and out of the map, the timeout is what took it out
C3_AsStated ==
    \A m \in AckWanted :
        (/\ Elapsed(m) > 5
         /\ ~(AckHandled(m) /\ AckDelay(m) <= 5)
         /\ m \notin rt_pending)
          => /\ rt_records[m].error = AckTimeoutError
             /\ rt_log[m].timeouts = 1
             /\ rt_log[m].tx <= 1

C3_Outcome ==
    /\ \A m \in MsgIds :
          /\ rt_log[m].timeouts <= 1
          /\ rt_log[m].tx <= 1
          /\ (rt_records[m].error = AckTimeoutError) = (rt_log[m].timeouts = 1)
          /\ rt_log[m].timeouts = 1
                => /\ m \notin rt_pending
                   /\ ~rt_records[m].acknowledged
                   /\ Elapsed(m) > 5
    /\ \A m \in AckWanted :
          (m \notin rt_pending /\ ~rt_records[m].acknowledged)
             => rt_records[m].error = AckTimeoutError

\* C3, amended: a message sent with require_ack that is still pending when
\* the watchdog passes more than 5 s after the send is taken out of the
\* pending map by that pass, with the error "ACK timeout (5s)"; the error is
\* set at most once, never before 5 s, never on an acknowledged record, no
\* message is written twice, and a message that left the map without being
\* acknowledged has the error
C3_WatchdogTimesOut ==
    /\ []C3_Outcome
    /\ [][rt_passes' # rt_passes =>
             \A m \in rt_pending :
                 Elapsed(m) > 5 => /\ m \notin rt_pending'
                                   /\ rt_records'[m].error = AckTimeoutError
                                   /\ rt_log'[m].timeouts = 1]_vars

\* a message timed out, and the ACK that came for it afterwards was dropped
C3_Witness ==
    \E m \in AckWanted :
        /\ rt_records[m].error = AckTimeoutError
        /\ rt_log[m].timeouts = 1
        /\ AckHandled(m)
        /\ ~rt_records[m].acknowledged

\* C4: a message sent with require_ack whose ACK reached the router less
\* than 5 s after the send is acknowledged and has no ACK-timeout error
C4_AsStated ==
    \A m \in MsgIds :
        (rt_log[m].require_ack /\ AckHandled(m) /\ AckDelay(m) < 5)
          => /\ rt_records[m].acknowledged
             /\ rt_records[m].error # AckTimeoutError

\* the ACK came in time, was dropped, and the message timed out
C4_AckedYetTimedOut ==
    \E m \in MsgIds :
        /\ rt_log[m].require_ack /\ AckHandled(m) /\ AckDelay(m) < 5
        /\ rt_records[m].error = AckTimeoutError

\* the write of message m failed with a transport error
WriteFailed(m) == rt_log[m].tx = 0 /\ rt_records[m].error # OversizeError

\* the send call that made message m has returned
SendReturned(m) == rt_send.pc = "idle" \/ rt_send.msg_id # m

InHistory(m) == \E i \in 1..Len(rt_history) : rt_history[i] = m

\* C22 (as stated): when the socket write of a SEND fails, send surfaces the
\* failure: the record it returns has its error set, and the message is
\* neither appended to the outbound history nor registered in the
\* pending-ACK map.
C22_AsStated ==
    \A m \in MsgIds :
        WriteFailed(m) =>
            /\ ~InHistory(m)
            /\ m \notin rt_pending
            /\ SendReturned(m) => rt_records[m].error # NoError

\* send has returned a record without error for a message whose write
\* failed, and the message is in the history and awaits an ACK
C22_FailureUnreported ==
    \E m \in MsgIds :
        /\ WriteFailed(m)
        /\ SendReturned(m)
        /\ rt_records[m].error = NoError
        /\ InHistory(m)
        /\ m \in rt_pending

\* the records send has returned with the error of an oversized frame
Oversized == {m \in MsgIds : rt_records[m].error = OversizeError}

\* a call of send has just made a record for an oversized frame
OversizeRejected ==
    /\ Len(rt_records') = Len(rt_records) + 1
    /\ rt_records'[Len(rt_records')].error = OversizeError

\* C33: a message whose encoded frame exceeds 32 KiB is rejected before
\* any byte is written: send_json raises, the connection stays open and in
\* the map, and send returns a record with the error set that is neither
\* in the outbound history nor in the pending-ACK map, then or later
C33_OversizeRejected ==
    /\ [](\A m \in Oversized :
            /\ rt_log[m].tx = 0
            /\ \A i \in 1..Len(rt_history) : rt_history[i] # m
            /\ m \notin rt_pending)
    /\ [][OversizeRejected =>
            /\ rt_connections' = rt_connections
            /\ rt_history' = rt_history
            /\ rt_pending' = rt_pending
            /\ rt_inflight' = rt_inflight
            /\ rt_send' = rt_send /\ rt_send.pc = "idle"]_vars

\* an oversized SEND that asked for an ACK was rejected; six seconds later
\* the watchdog has passed, the record still carries the size error and the
\* connection is still in the map
C33_Witness ==
    /\ Len(rt_records) = 1
    /\ rt_records[1].error = OversizeError
    /\ rt_log[1].require_ack
    /\ rt_now > ACK_TIMEOUT_SECONDS
    /\ rt_passes = 1
    /\ RouterPeer \in rt_connections

\* the record of m was resolved: an ACK or the watchdog took it out of the
\* pending map
Resolved(m) == rt_records[m].acknowledged \/ rt_records[m].error = AckTimeoutError

\* C36: every outbound record is resolved at most once: no record is
\* both acknowledged and timed out, and once an ACK or the watchdog has
\* taken a msg_id out of the pending-ACK map, no later ACK and no later
\* watchdog pass changes its record or puts it back, however the reader
\* thread and the watchdog thread interleave
C36_ResolvedOnce ==
    /\ [](\A m \in MsgIds :
            /\ ~(rt_records[m].acknowledged /\ rt_records[m].error = AckTimeoutError)
            /\ Resolved(m) => m \notin rt_pending)
    /\ [][\A m \in MsgIds :
            Resolved(m) => /\ rt_records'[m] = rt_records[m]
                           /\ m \notin rt_pending']_vars

\* a message was acknowledged in time; six seconds after the send the
\* watchdog has passed and the record is as the ACK left it
C36_Witness ==
    \E m \in MsgIds :
        /\ rt_records[m].acknowledged
        /\ rt_records[m].error = NoError
        /\ AckDelay(m) < 5
        /\ Elapsed(m) > 5
        /\ rt_passes = 1

(***************************************************************************)
(* P2PClient: the live-connections map (client/p2p_client.py).             *)
(* Attempt 0 is the discovery thread connecting out to ConnPeer; attempts  *)
(* 1..MaxInbound are PeerServer's per-socket threads handing over a socket *)
(* on which ConnPeer said HELLO.  Each line of the code that reads or      *)
(* writes self.connections is a step of its own.                           *)
(***************************************************************************)
ConnPeer == "bob@CIC"
EphemeralPort == 50001
Inbound == 1..MaxInbound

\* PeerConnection(settings, peer, sock, is_outbound)
PeerConnection(is_outbound) ==
    [is_outbound |-> is_outbound,
     stop |-> FALSE,        \* _stop_event.is_set()
     sock_open |-> TRUE,
     reader |-> FALSE,      \* the reader thread was started
     closing |-> FALSE,     \* a thread is inside close(), past the flag
     registered |-> FALSE]  \* history: it was put in the map

AttAt(a, pc) == [cl_att EXCEPT ![a].pc = pc]

\* discover_once: ConnPeer is in the DISCOVER result and new to the table
OutDiscover ==
    LET peer == PeerInfo(ConnPeer, "10.0.0.2", 6000, "CIC", "DISCOVERED",
                         AwareTime(pg_now))
    IN /\ cl_att[0].pc = "idle"
       /\ UpsertIsNew(peer_table, peer)
       /\ peer_table' = UpsertPeer(peer_table, peer)
       /\ cl_att' = AttAt(0, "out_check")
       /\ UNCHANGED <<cl_conns, cl_map>>

\* discover_once / connect_to_peer: if peer.peer_id in self.connections
OutCheck ==
    /\ cl_att[0].pc = "out_check"
    /\ cl_att' = AttAt(0, IF cl_map # 0 THEN "done" ELSE "out_connect")
    /\ UNCHANGED <<cl_conns, cl_map, peer_table>>

\* PeerConnection.connect_outbound: TCP connect and HELLO / HELLO_OK; ok =
\* FALSE when it raises and connect_to_peer returns False
OutConnect(ok) ==
    /\ cl_att[0].pc = "out_connect"
    /\ IF ok
       THEN /\ cl_conns' = Append(cl_conns, PeerConnection(TRUE))
            /\ cl_att' = [cl_att EXCEPT ![0] = [pc |-> "out_recheck",
                                                conn |-> Len(cl_conns) + 1]]
       ELSE /\ cl_att' = AttAt(0, "done")
            /\ UNCHANGED cl_conns
    /\ UNCHANGED <<cl_map, peer_table>>

\* connect_to_peer: the second look at self.connections
OutRecheck ==
    /\ cl_att[0].pc = "out_recheck"
    /\ cl_att' = AttAt(0, IF cl_map # 0 THEN "out_discard" ELSE "out_register")
    /\ UNCHANGED <<cl_conns, cl_map, peer_table>>

\* self.connections[peer.peer_id] = connection
RegisterConnection(a, next) ==
    /\ cl_map' = cl_att[a].conn
    /\ cl_conns' = [cl_conns EXCEPT ![cl_att[a].conn].registered = TRUE]
    /\ cl_att' = AttAt(a, next)
    /\ UNCHANGED peer_table

\* connection.start_reader(): the stop flag is cleared, the reader started
StartReader(a) ==
    /\ cl_conns' = [cl_conns EXCEPT ![cl_att[a].conn].stop = FALSE,
                                    ![cl_att[a].conn].reader = TRUE]
    /\ cl_att' = AttAt(a, "done")
    /\ UNCHANGED <<cl_map, peer_table>>

OutRegister == cl_att[0].pc = "out_register" /\ RegisterConnection(0, "out_start")

OutStart == cl_att[0].pc = "out_start" /\ StartReader(0)

\* PeerConnection.close, first half: the flag is tested and set
\* (a closed connection returns at once)
CloseEnter(c) ==
    /\ ~cl_conns[c].stop
    /\ cl_conns' = [cl_conns EXCEPT ![c].stop = TRUE, ![c].closing = TRUE]

\* _on_connection_closed: self.connections.pop(peer_id, None); mark_stale
OnConnectionClosed(c) ==
    /\ cl_map' = 0
    /\ peer_table' = MarkStale(peer_table, ConnPeer)

\* PeerConnection.close, second half: the socket is shut and closed and
\* _on_closed(self) called
CloseFinish(c) ==
    /\ cl_conns[c].closing
    /\ cl_conns' = [cl_conns EXCEPT ![c].closing = FALSE, ![c].sock_open = FALSE]
    /\ OnConnectionClosed(c)

\* connect_to_peer: connection.close() on the connection that lost
OutDiscard ==
    /\ cl_att[0].pc = "out_discard"
    /\ CloseEnter(cl_att[0].conn)
    /\ cl_att' = AttAt(0, "out_closing")
    /\ UNCHANGED <<cl_map, peer_table>>

OutDiscarded ==
    /\ cl_att[0].pc = "out_closing"
    /\ CloseFinish(cl_att[0].conn)
    /\ cl_att' = AttAt(0, "done")

\* PeerServer._handle_connection: HELLO read, the peer upserted as CONNECTED
\* at the address the socket came from, HELLO_OK written, the socket handed
\* to _handle_inbound_socket
InHandshake(a) ==
    /\ cl_att[a].pc = "idle"
    /\ \A b \in Inbound : b < a => cl_att[b].pc # "idle"
    /\ peer_table' = UpsertPeer(peer_table,
                                PeerInfo(ConnPeer, "10.0.0.2", EphemeralPort, "CIC",
                                         "CONNECTED", AwareTime(pg_now)))
    /\ cl_att' = AttAt(a, "in_check")
    /\ UNCHANGED <<cl_conns, cl_map>>

\* (mutant) a rejection that closes the registered connection as well
InCheck_ClosesRegistered(a) ==
    /\ cl_att[a].pc = "in_check"
    /\ cl_att' = AttAt(a, IF cl_map # 0 THEN "done" ELSE "in_construct")
    /\ cl_map' = 0
    /\ cl_conns' = IF cl_map # 0 THEN [cl_conns EXCEPT ![cl_map].sock_open = FALSE]
                  ELSE cl_conns
    /\ peer_table' = IF cl_map # 0 THEN MarkStale(peer_table, ConnPeer) ELSE peer_table

\* _handle_inbound_socket: if peer.peer_id in self.connections, the socket
\* gets HELLO_REJECT and is closed
InCheck(a) ==
    /\ cl_att[a].pc = "in_check"
    /\ cl_att' = AttAt(a, IF cl_map # 0 THEN "done" ELSE "in_construct")
    /\ UNCHANGED <<cl_conns, cl_map, peer_table>>

\* _handle_inbound_socket: upsert_peer(peer); PeerConnection.from_inbound
InConstruct(a) ==
    /\ cl_att[a].pc = "in_construct"
    /\ peer_table' = UpsertPeer(peer_table,
                                PeerInfo(ConnPeer, "10.0.0.2", EphemeralPort, "CIC",
                                         "CONNECTED", AwareTime(pg_now)))
    /\ cl_conns' = Append(cl_conns, PeerConnection(FALSE))
    /\ cl_att' = [cl_att EXCEPT ![a] = [pc |-> "in_register",
                                        conn |-> Len(cl_conns) + 1]]
    /\ UNCHANGED cl_map

InRegister(a) == cl_att[a].pc = "in_register" /\ RegisterConnection(a, "in_start")

InStart(a) == cl_att[a].pc = "in_start" /\ StartReader(a)

\* the reader loop of a started connection leaves on a socket error and
\* calls close()
ReaderFails(c) ==
    /\ cl_conns[c].reader /\ cl_conns[c].sock_open
    /\ CloseEnter(c)
    /\ UNCHANGED <<cl_map, cl_att, peer_table>>

ReaderClosed(c) ==
    /\ cl_conns[c].reader
    /\ CloseFinish(c)
    /\ UNCHANGED cl_att

ConnIds == 1..Len(cl_conns)

ClientOutDiscover == OutDiscover /\ UNCHANGED notConn
ClientOutCheck == OutCheck /\ UNCHANGED notConn
ClientOutConnect == (\E ok \in BOOLEAN : OutConnect(ok)) /\ UNCHANGED notConn
ClientOutRecheck == OutRecheck /\ UNCHANGED notConn
ClientOutRegister == OutRegister /\ UNCHANGED notConn
ClientOutStart == OutStart /\ UNCHANGED notConn
ClientOutDiscard == OutDiscard /\ UNCHANGED notConn
ClientOutDiscarded == OutDiscarded /\ UNCHANGED notConn
ClientInHandshake == (\E a \in Inbound : InHandshake(a)) /\ UNCHANGED notConn
ClientInCheck == (\E a \in Inbound : InCheck(a)) /\ UNCHANGED notConn
ClientInConstruct == (\E a \in Inbound : InConstruct(a)) /\ UNCHANGED notConn
ClientInRegister == (\E a \in Inbound : InRegister(a)) /\ UNCHANGED notConn
ClientInStart == (\E a \in Inbound : InStart(a)) /\ UNCHANGED notConn
ClientReaderFails == (\E c \in ConnIds : ReaderFails(c)) /\ UNCHANGED notConn
ClientReaderClosed == (\E c \in ConnIds : ReaderClosed(c)) /\ UNCHANGED notConn

ClientInit == ClientIdle /\ RdvInit /\ val_args = NoArgs /\ AloneIdle

ClientNext ==
    \/ ClientOutDiscover \/ ClientOutCheck \/ ClientOutConnect \/ ClientOutRecheck
    \/ ClientOutRegister \/ ClientOutStart \/ ClientOutDiscard \/ ClientOutDiscarded
    \/ ClientInHandshake \/ ClientInCheck \/ ClientInConstruct \/ ClientInRegister
    \/ ClientInStart \/ ClientReaderFails \/ ClientReaderClosed

SpecClient == ClientInit /\ [][ClientNext]_vars

(***************************************************************************)
(* Claims about the live-connections map                                   *)
(***************************************************************************)
\* a connection that was registered, has its reader running and was not
\* closed
Live(c) == cl_conns[c].registered /\ cl_conns[c].reader /\ ~cl_conns[c].stop

LiveConns == {c \in ConnIds : Live(c)}

\* C1: in every reachable state there is at most one live (not yet closed)
\* PeerConnection for the peer_id
C1_AsStated == Cardinality(LiveConns) <= 1

\* two connections to the same peer run side by side, one of them unknown
\* to the map
C1_TwoLive ==
    \E c, d \in LiveConns : c # d /\ cl_map = d /\ cl_conns[c].sock_open

\* the outbound connect and exactly one inbound handoff, both after a
\* successful handshake, have finished, and no connection failed since
RaceOver ==
    /\ cl_att[0].pc = "done" /\ cl_att[0].conn # 0
    /\ cl_att[1].pc = "done"
    /\ \A a \in Inbound \ {1} : cl_att[a].pc = "idle"
    /\ \A c \in ConnIds : cl_conns[c].reader => ~cl_conns[c].stop

\* C2: when an inbound handshake and an outbound connect_to_peer for the
\* same peer_id both succeeded and both operations have finished, exactly
\* one connection is live and it is the one in the map
C2_AsStated ==
    RaceOver => /\ Cardinality(LiveConns) = 1
                /\ cl_map \in LiveConns
                /\ \A c \in ConnIds : ~cl_conns[c].stop => c = cl_map

\* the inbound connection won, the outbound one was discarded, and the
\* winner is live but no longer in the map
C2_WinnerUnregistered ==
    /\ RaceOver
    /\ cl_map = 0
    /\ \E c \in LiveConns : ~cl_conns[c].is_outbound
    /\ \E c \in ConnIds : cl_conns[c].is_outbound /\ cl_conns[c].stop
    /\ peer_table[ConnPeer].status = "STALE"

\* the socket of inbound attempt a got HELLO_REJECT and was closed: the
\* handoff ended without a PeerConnection made for it
Rejected(a) == cl_att[a].pc = "done" /\ cl_att[a].conn = 0

\* C30: when the orchestrator is handed an inbound socket for a peer_id
\* that has an entry in the live-connections map, it sends HELLO_REJECT on
\* the new socket and closes it, and the step leaves the existing
\* connection as it is: registered, with its socket as it was, and the
\* peer's entry in the table unchanged (not STALE).
C30_DuplicateRejected ==
    [][\A a \in Inbound :
          (cl_att[a].pc = "in_check" /\ cl_att'[a].pc # "in_check" /\ cl_map # 0) =>
             /\ cl_att'[a].pc = "done" /\ cl_att'[a].conn = 0
             /\ cl_map' = cl_map
             /\ cl_conns' = cl_conns
             /\ peer_table' = peer_table]_vars

\* an inbound socket was rejected, and the connection registered before is
\* registered still, open, with the peer CONNECTED in the table
C30_Witness ==
    /\ \E a \in Inbound : Rejected(a)
    /\ cl_map # 0
    /\ cl_conns[cl_map].sock_open /\ ~cl_conns[cl_map].stop
    /\ peer_table[ConnPeer].status = "CONNECTED"

(***************************************************************************)
(* SpecPersist: PeerDatabase._save and _load over the tables REGISTER can  *)
(* leave in memory.                                                        *)
(***************************************************************************)
\* the records REGISTER can have put in the table
PersistNames ==
    {PyStr(<<"b", "o", "b">>), PyStr(<<Quote, "a", Backslash>>), PyNone,
     PyStr(<<"a", Surrogate>>)}
PersistNamespaces == {PyStr(<<"C", "I", "C">>), PyStr(<<"L", Backslash, Quote>>)}
PersistPorts == {[port |-> 1, ttl |-> 86400], [port |-> 65535, ttl |-> 1]}
PersistRecords ==
    {NewRecord("10.0.0.1", ObservedPort, ns, name, PyIntV(pt.port), PyIntV(pt.ttl), 0) :
        ns \in PersistNamespaces, name \in PersistNames, pt \in PersistPorts}

PersistTables == UNION {[1..n -> PersistRecords] : n \in 0..MaxRecords}

\* the table is written out
PersistSave ==
    /\ pf_pc = "idle"
    /\ IF SaveText(db_peers).raises
       THEN pf_text' = pf_text /\ pf_pc' = "save_raised"
       ELSE /\ pf_text' = [exists |-> TRUE, entries |-> SaveText(db_peers).text]
            /\ pf_pc' = "saved"
    /\ UNCHANGED <<db_peers, db_file, pf_loaded, notPersist>>

\* the service starts again: PeerDatabase.__init__ loads the file
PersistLoad ==
    /\ pf_pc \in {"saved", "save_raised"}
    /\ pf_loaded' = Load(pf_text)
    /\ pf_pc' = "loaded"
    /\ UNCHANGED <<db_peers, db_file, pf_text, notPersist>>

PersistInit ==
    /\ db_peers \in PersistTables
    /\ db_file = <<>>
    /\ rdv_now = 0
    /\ rdv_req = Request("NONE", "", PyMissing, "", PyMissing, PyMissing)
    /\ rdv_resp = Response("NONE", "", "", 0, "", 0, NoRecords)
    /\ rdv_found = NoRecords
    /\ rdv_regs = {}
    /\ val_args = NoArgs
    /\ ClientIdle
    /\ AloneIdle

PersistNext == PersistSave \/ PersistLoad

SpecPersist == PersistInit /\ [][PersistNext]_vars

\* the (ip, port, name, namespace, ttl) tuples of a table
Tuples(peers) ==
    {<<peers[i].ip, peers[i].port, peers[i].name, peers[i].namespace, peers[i].ttl>> :
        i \in 1..Len(peers)}

\* C11: a table saved and then loaded from the file has the same set of
\* (ip, port, name, namespace, ttl) tuples
C11_AsStated == pf_pc = "loaded" => Tuples(pf_loaded) = Tuples(db_peers)

\* what holds: a table _save could write comes back with the same tuples
C11_RoundTripWhenWritten ==
    (pf_pc = "loaded" /\ ~SaveText(db_peers).raises)
        => Tuples(pf_loaded) = Tuples(db_peers)

\* a table with a name UTF-8 cannot encode was saved and loaded: _save
\* raised, no file was written, and the load came back empty
C11_SaveRaised ==
    /\ pf_pc = "loaded"
    /\ Len(db_peers) > 0
    /\ SaveText(db_peers).raises
    /\ pf_loaded = <<>>

(***************************************************************************)
(* SpecTable: PeerTable.upsert_peer applied to the tables and the          *)
(* PeerInfos it can be given.                                              *)
(***************************************************************************)
MaxUpserts == 1

TableStatuses == {"UNKNOWN", "CONNECTED", "STALE"}

\* a PeerInfo with every field given
FullPeerInfo(peer_id, address, port, namespace, status, last_seen_at, rtt, attempts) ==
    [PeerInfo(peer_id, address, port, namespace, status, last_seen_at)
        EXCEPT !.average_rtt_ms = rtt, !.reconnect_attempts = attempts]

\* the entries a table can hold for a peer_id
TableEntries(id) ==
    {FullPeerInfo(id, "10.0.0.2", 6000, "CIC", st, NoTime, rtt, att) :
        st \in TableStatuses, rtt \in {NoRtt, Fraction(25, 1)}, att \in {0, 2}}

\* the PeerInfos handed to upsert_peer
IncomingPeers ==
    {FullPeerInfo(id, "10.0.0.9", 7000, "LAB", st, AwareTime(1), rtt, att) :
        id \in PeerIds, st \in TableStatuses,
        rtt \in {NoRtt, Fraction(80, 1)}, att \in {0, 5}}

TableUpsert ==
    /\ tb_last.n < MaxUpserts
    /\ \E peer \in IncomingPeers :
          /\ peer_table' = UpsertPeer(peer_table, peer)
          /\ tb_last' = [n |-> tb_last.n + 1, peer |-> peer,
                         before |-> peer_table[peer.peer_id],
                         is_new |-> UpsertIsNew(peer_table, peer)]
    /\ UNCHANGED notTable

TableInit ==
    /\ peer_table \in [PeerIds -> {NoPeer} \cup UNION {TableEntries(id) : id \in PeerIds}]
    /\ \A id \in PeerIds : peer_table[id] = NoPeer \/ peer_table[id].peer_id = id
    /\ RuntimeIdle
    /\ RdvInit
    /\ val_args = NoArgs
    /\ AloneIdle

TableNext == TableUpsert

SpecTable == TableInit /\ [][TableNext]_vars

\* the entry of the peer_id upsert_peer was last called with
Upserted == peer_table[tb_last.peer.peer_id]

\* C12: upsert_peer on a peer_id already in the table returns "not new",
\* replaces address, port, namespace and last_seen_at with the incoming
\* values, keeps status CONNECTED if it was CONNECTED and otherwise takes
\* the incoming status, and leaves average_rtt_ms and reconnect_attempts
\* as they were
C12_UpsertExisting ==
    (tb_last.n > 0 /\ tb_last.before # NoPeer) =>
        /\ ~tb_last.is_new
        /\ Upserted.address = tb_last.peer.address
        /\ Upserted.port = tb_last.peer.port
        /\ Upserted.namespace = tb_last.peer.namespace
        /\ Upserted.last_seen_at = tb_last.peer.last_seen_at
        /\ Upserted.status = IF tb_last.before.status = "CONNECTED"
                             THEN "CONNECTED" ELSE tb_last.peer.status
        /\ Upserted.average_rtt_ms = tb_last.before.average_rtt_ms
        /\ Upserted.reconnect_attempts = tb_last.before.reconnect_attempts

\* an entry that was CONNECTED with an average and attempts of its own met
\* an incoming STALE PeerInfo with another average and other attempts
C12_Witness ==
    /\ tb_last.n > 0
    /\ tb_last.before # NoPeer
    /\ tb_last.before.status = "CONNECTED"
    /\ tb_last.peer.status = "STALE"
    /\ tb_last.before.average_rtt_ms # tb_last.peer.average_rtt_ms
    /\ tb_last.before.reconnect_attempts # tb_last.peer.reconnect_attempts
    /\ tb_last.before.address # tb_last.peer.address

(***************************************************************************)
(* SpecUnreg: UNREGISTER applied, once and again, to the tables REGISTER   *)
(* can leave in memory.                                                    *)
(***************************************************************************)
MaxUnregs == 2

UnregIps == {"10.0.0.1", "10.0.0.2"}

\* the records in memory: those of well-named clients, and those of a
\* client whose name _save could not write
UnregRecords ==
    {NewRecord(ip, ObservedPort, PyStr(ns), name, PyIntV(6000), PyIntV(1), 0) :
        ip \in UnregIps, ns \in {NsCIC, NsLAB}, name \in {Alice, PyStr(<<"a", Surrogate>>)}}

UnregTables == UNION {[1..n -> UnregRecords] : n \in 0..MaxRecords}

UnregNamespaces == {PyStr(NsCIC), PyStr(NsLAB), PyMissing}

UnregUnregister ==
    /\ Len(un_calls) < MaxUnregs
    /\ \E ip \in UnregIps, ns \in UnregNamespaces :
          /\ Unregister(ip, ns)
          /\ un_calls' = Append(un_calls,
                [ip |-> ip, namespace |-> ArgsGetNone(ns), before |-> db_peers,
                 after |-> db_peers', status |-> rdv_resp'.status])
    /\ UNCHANGED notUnreg

UnregInit ==
    /\ db_peers \in UnregTables
    /\ db_file = <<>>
    /\ rdv_now = 0
    /\ rdv_req = Request("NONE", "", PyMissing, "", PyMissing, PyMissing)
    /\ rdv_resp = Response("NONE", "", "", 0, "", 0, NoRecords)
    /\ rdv_found = NoRecords
    /\ rdv_regs = {}
    /\ val_args = NoArgs
    /\ ClientIdle
    /\ AloneIdle

UnregNext == UnregUnregister

SpecUnreg == UnregInit /\ [][UnregNext]_vars

\* the records of a table an UNREGISTER is about
Targeted(c, p) == p.ip = c.ip /\ PyStr(p.namespace) = c.namespace

\* the table without the records the UNREGISTER is about, the others in
\* their order
Untargeted(c) == LET Other(p) == ~Targeted(c, p) IN SelectSeq(c.before, Other)

\* an UNREGISTER that repeats the one before it
Repeated(i) ==
    /\ i > 1
    /\ un_calls[i].ip = un_calls[i - 1].ip
    /\ un_calls[i].namespace = un_calls[i - 1].namespace

\* C13: UNREGISTER(namespace, client_ip) removes exactly the records of
\* that ip and namespace, leaves every other record as it was, returns OK,
\* and applied a second time changes nothing and again returns OK
C13_AsStated ==
    \A i \in 1..Len(un_calls) :
        /\ un_calls[i].after = Untargeted(un_calls[i])
        /\ un_calls[i].status = "OK"
        /\ Repeated(i) => un_calls[i].after = un_calls[i].before

\* what holds: the removal and the idempotence in every case, and the OK
\* whenever the table left over can be written to peers.json
C13_OkWhenSaved ==
    \A i \in 1..Len(un_calls) :
        /\ un_calls[i].after = Untargeted(un_calls[i])
        /\ Repeated(i) => un_calls[i].after = un_calls[i].before
        /\ un_calls[i].status = "OK" <=> ~SaveText(un_calls[i].after).raises

\* an UNREGISTER removed a record and was answered ERROR, the table left
\* over holding a record of another client that _save cannot write
C13_ErrorAnswered ==
    \E i \in 1..Len(un_calls) :
        /\ Len(un_calls[i].after) < Len(un_calls[i].before)
        /\ un_calls[i].status = "ERROR"

(***************************************************************************)
(* REGISTER and the records of one (ip, namespace, name), under SpecRdv.   *)
(***************************************************************************)
SameKey(p, q) == p.ip = q.ip /\ p.namespace = q.namespace /\ p.name = q.name

\* C14: REGISTER is an upsert: the store holds at most one record per
\* (ip, namespace, name), and no DISCOVER response holds two records of
\* one key
C14_AsStated ==
    /\ \A i, j \in 1..Len(db_peers) : SameKey(db_peers[i], db_peers[j]) => i = j
    /\ \A i, j \in 1..Len(rdv_resp.peers) :
           SameKey(rdv_resp.peers[i], rdv_resp.peers[j]) => i = j

\* a DISCOVER was answered with two records of one (ip, namespace, name),
\* left by two REGISTERs that were both answered OK
C14_DuplicateDiscovered ==
    /\ rdv_req.cmd = "DISCOVER"
    /\ \E i, j \in 1..Len(rdv_resp.peers) :
          i # j /\ SameKey(rdv_resp.peers[i], rdv_resp.peers[j])

(***************************************************************************)
(* SpecClose: PeerConnection.close called by the threads of a started      *)
(* outbound connection (client/peer_connection.py).  The statements of     *)
(* close() are steps of their own: no lock makes them one.                 *)
(***************************************************************************)
MaxCloseCalls == 2

ClosePcAt(t, pc) == [cc_pc EXCEPT ![t] = pc]

\* a thread calls close(): `if self._stop_event.is_set(): return`
CloseTest(t) ==
    /\ cc_pc[t] = "out"
    /\ cc_calls[t] < MaxCloseCalls
    /\ cc_calls' = [cc_calls EXCEPT ![t] = @ + 1]
    /\ cc_pc' = ClosePcAt(t, IF cc_stop THEN "out" ELSE "tested")
    /\ UNCHANGED <<cc_stop, cc_socket_closes, cc_on_closed>>

\* `self._stop_event.set()`
CloseSet(t) ==
    /\ cc_pc[t] = "tested"
    /\ cc_stop' = TRUE
    /\ cc_pc' = ClosePcAt(t, "set")
    /\ UNCHANGED <<cc_calls, cc_socket_closes, cc_on_closed>>

\* `self._ping_thread.join(timeout=1)`: a thread that joins itself gets a
\* RuntimeError, which leaves close(); _send_ping catches it
CloseJoin(t) ==
    /\ cc_pc[t] = "set"
    /\ cc_pc' = ClosePcAt(t, IF t = "ping" THEN "out" ELSE "joined")
    /\ UNCHANGED <<cc_stop, cc_calls, cc_socket_closes, cc_on_closed>>

\* socket.shutdown and socket.close
CloseSocket(t) ==
    /\ cc_pc[t] = "joined"
    /\ cc_socket_closes' = cc_socket_closes + 1
    /\ cc_pc' = ClosePcAt(t, "shut")
    /\ UNCHANGED <<cc_stop, cc_calls, cc_on_closed>>

\* `self._on_closed(self)`, and close() returns
CloseNotify(t) ==
    /\ cc_pc[t] = "shut"
    /\ cc_on_closed' = cc_on_closed + 1
    /\ cc_pc' = ClosePcAt(t, "out")
    /\ UNCHANGED <<cc_stop, cc_calls, cc_socket_closes>>

CloseCall == \E t \in Closers : CloseTest(t) /\ UNCHANGED notClose
CloseSetFlag == \E t \in Closers : CloseSet(t) /\ UNCHANGED notClose
CloseJoinPing == \E t \in Closers : CloseJoin(t) /\ UNCHANGED notClose
CloseShut == \E t \in Closers : CloseSocket(t) /\ UNCHANGED notClose
CloseCallback == \E t \in Closers : CloseNotify(t) /\ UNCHANGED notClose

CloseInit ==
    /\ RdvInit
    /\ val_args = NoArgs
    /\ ClientIdle
    /\ AloneIdle

CloseNext == CloseCall \/ CloseSetFlag \/ CloseJoinPing \/ CloseShut \/ CloseCallback

SpecClose == CloseInit /\ [][CloseNext]_vars

\* no thread is inside close()
NobodyClosing == \A t \in Closers : cc_pc[t] = "out"

\* C15: whatever close() calls are made, one after another or at once, the
\* socket is closed and the on-closed callback invoked exactly once in
\* total: never a second time, and once when the calls have returned
C15_AsStated ==
    /\ cc_on_closed <= 1
    /\ cc_socket_closes <= 1
    /\ (NobodyClosing /\ \E t \in Closers : cc_calls[t] > 0)
          => (cc_on_closed = 1 /\ cc_socket_closes = 1)

\* the ping thread called close(), then the others did, all calls have
\* returned, and the socket is open and the callback was never invoked
C15_NeverClosed ==
    /\ NobodyClosing
    /\ \A t \in Closers : cc_calls[t] > 0
    /\ cc_stop
    /\ cc_on_closed = 0
    /\ cc_socket_closes = 0

\* the reader and the orchestrator both passed the test of the flag, and
\* the callback was invoked twice
C15_ClosedTwice == cc_on_closed = 2 /\ cc_calls["ping"] = 0

(***************************************************************************)
(* SpecReconcile: discovery, connection loss and the reconciliation pass   *)
(* of P2PClient over the peers of the table (client/p2p_client.py).        *)
(***************************************************************************)
max_reconnect_attempts == 5

\* connect_to_peer: True with a connection in the map, or False
ConnectToPeer(conns, peer_id) ==
    IF peer_id \in conns \/ peer_id \in rc_reachable THEN conns \cup {peer_id} ELSE conns

\* discover_once with a DISCOVER result of one peer: the peer is upserted,
\* the peers not in the result that were not seen for long become STALE,
\* a peer new to the table is connected to
RcDiscover(peer_id, stale) ==
    LET peer == PeerInfo(peer_id, "10.0.0.2", 6000, "CIC", "DISCOVERED", AwareTime(0))
        is_new == UpsertIsNew(peer_table, peer)
        upserted == UpsertPeer(peer_table, peer)
    IN /\ peer_table' = IF stale THEN
                            [id \in PeerIds |->
                                IF id # peer_id THEN MarkStale(upserted, id)[id]
                                ELSE upserted[id]]
                        ELSE upserted
       /\ rc_order' = IF is_new THEN Append(rc_order, peer_id) ELSE rc_order
       /\ rc_connections' = IF is_new THEN ConnectToPeer(rc_connections, peer_id)
                                      ELSE rc_connections
       /\ UNCHANGED <<rc_reachable, rc_last>>

\* _on_connection_closed: a connection ended
RcConnectionClosed(peer_id) ==
    /\ peer_id \in rc_connections
    /\ rc_connections' = rc_connections \ {peer_id}
    /\ peer_table' = MarkStale(peer_table, peer_id)
    /\ UNCHANGED <<rc_reachable, rc_order, rc_last>>

\* the remote peer starts or stops listening
RcListener(peer_id) ==
    /\ rc_reachable' = IF peer_id \in rc_reachable THEN rc_reachable \ {peer_id}
                                                   ELSE rc_reachable \cup {peer_id}
    /\ UNCHANGED <<peer_table, rc_connections, rc_order, rc_last>>

\* reconcile_peer_connections: the tests a peer passes before an attempt
Eligible(peer_id) ==
    /\ peer_id # LocalPeerId
    /\ peer_id \notin rc_connections
    /\ peer_table[peer_id].address # "" /\ peer_table[peer_id].port # 0
    /\ ~(peer_table[peer_id].reconnect_attempts >= max_reconnect_attempts)

\* the peers of the table that pass the tests
EligiblePeers == {rc_order[i] : i \in {j \in 1..Len(rc_order) : Eligible(rc_order[j])}}

\* the first peer of the table, in its order, that passes the tests
FirstEligible ==
    LET at == {i \in 1..Len(rc_order) : Eligible(rc_order[i])}
    IN IF at = {} THEN "" ELSE rc_order[CHOOSE i \in at : \A j \in at : i <= j]

\* reconcile_peer_connections: a PeerInfo has no last_connection_attempt,
\* so reading it for the first eligible peer raises AttributeError, which
\* ends the pass before any attempt: nothing is written, nobody is
\* connected to.  rc_last keeps what the pass met: the peers that passed
\* the tests, the peers connect_to_peer was called for (none), whether
\* the attempt time was stored (never), whether the pass raised
ReconcilePeerConnections ==
    /\ rc_last' = [n |-> 1 - rc_last.n, peer |-> FirstEligible,
                   reachable |-> FirstEligible \in rc_reachable,
                   before |-> IF FirstEligible = "" THEN 0
                              ELSE peer_table[FirstEligible].reconnect_attempts,
                   after |-> IF FirstEligible = "" THEN 0
                             ELSE peer_table[FirstEligible].reconnect_attempts,
                   eligible |-> EligiblePeers,
                   attempted |-> {},
                   stamped |-> FALSE,
                   raised |-> FirstEligible # ""]
    /\ UNCHANGED <<peer_table, rc_connections, rc_reachable, rc_order>>

RcDiscovery ==
    /\ \E peer_id \in PeerIds, stale \in BOOLEAN : RcDiscover(peer_id, stale)
    /\ UNCHANGED notReconcile
RcClosed == (\E peer_id \in PeerIds : RcConnectionClosed(peer_id)) /\ UNCHANGED notReconcile
RcRemote == (\E peer_id \in PeerIds : RcListener(peer_id)) /\ UNCHANGED notReconcile
RcReconcile == ReconcilePeerConnections /\ UNCHANGED notReconcile

ReconcileInit ==
    /\ RdvInit
    /\ val_args = NoArgs
    /\ ClientIdle
    /\ AloneIdle

ReconcileNext == RcDiscovery \/ RcClosed \/ RcRemote \/ RcReconcile

SpecReconcile == ReconcileInit /\ [][ReconcileNext]_vars

\* C16: every peer's reconnect_attempts is within 0..max_reconnect_attempts;
\* a reconciliation pass that meets a peer to connect to leaves the peer's
\* reconnect_attempts one higher when the connection cannot be made, and
\* at 0 when it can
C16_AsStated ==
    /\ \A id \in PeerIds :
          peer_table[id].reconnect_attempts \in 0..max_reconnect_attempts
    /\ rc_last.peer # "" =>
          rc_last.after = IF rc_last.reachable THEN 0 ELSE rc_last.before + 1

\* a pass met a known, unconnected peer that could not be reached, and the
\* peer's reconnect_attempts is what it was
C16_AttemptNotCounted ==
    /\ rc_last.peer # ""
    /\ ~rc_last.reachable
    /\ rc_last.after = rc_last.before
    /\ peer_table[rc_last.peer].reconnect_attempts = 0

\* C24 (as stated): a reconciliation pass never attempts the local peer, a
\* connected peer, a peer without address or port, a peer whose
\* reconnect_attempts reached max_reconnect_attempts or one inside its
\* backoff delay, and it attempts every other known peer once.
C24_AsStated ==
    /\ rc_last.attempted \cap {LocalPeerId} = {}
    /\ rc_last.attempted \subseteq rc_last.eligible
    /\ rc_last.eligible \subseteq rc_last.attempted

\* a pass met a known, reachable, unconnected peer never attempted before
\* and did not attempt it
C24_EligibleNotAttempted ==
    /\ rc_last.peer # ""
    /\ rc_last.peer \in rc_last.eligible
    /\ rc_last.reachable
    /\ rc_last.before = 0
    /\ rc_last.attempted = {}

\* C25 (as stated): for every attempt of a reconciliation pass the attempt
\* time is stored and reconnect_attempts is one higher in the peer table
\* before the connect begins; the counter is reset to 0 and the status set
\* to CONNECTED only after the connect succeeded.
C25_AsStated ==
    /\ rc_last.peer # "" =>
          /\ rc_last.stamped
          /\ rc_last.peer \notin rc_connections =>
                peer_table[rc_last.peer].reconnect_attempts = rc_last.before + 1
    /\ \A id \in PeerIds :
          (peer_table[id].status = "CONNECTED" /\ rc_last.peer = id) => id \in rc_connections

\* a pass met an eligible peer, stored no attempt time and left the counter
\* in the table as it was
C25_AttemptNotStamped ==
    /\ rc_last.peer # ""
    /\ ~rc_last.stamped
    /\ rc_last.peer \notin rc_connections
    /\ peer_table[rc_last.peer].reconnect_attempts = rc_last.before

\* C26 (as stated): a reconciliation pass over a table with eligible peers
\* runs to completion: a connect that fails is a failed attempt for that
\* peer only, nothing is raised out of reconcile_peer_connections, and
\* every remaining eligible peer is attempted in the same pass.
C26_AsStated ==
    /\ ~rc_last.raised
    /\ \A id \in rc_last.eligible : id # rc_last.peer => id \in rc_last.attempted

\* a pass over two eligible peers raised at the first, which could not be
\* reached, and never came to the second
C26_PassRaised ==
    /\ rc_last.raised
    /\ ~rc_last.reachable
    /\ Cardinality(rc_last.eligible) = 2
    /\ rc_last.attempted = {}

(***************************************************************************)
(* SpecPublish: MessageRouter.send and publish over the connections to     *)
(* several peers (client/message_router.py).  A destination is written as  *)
(* its first character followed by the rest of the string.                 *)
(***************************************************************************)
MaxCalls == 1

\* the peer_ids a connection can be registered under: a remote peer may
\* say HELLO with any peer_id, the local one included
PubIds == PeerIds \cup {LocalPeerId}
PubOrder == <<LocalPeerId, "bob@CIC", "carol@LAB">>

\* peer_id.split("@")[-1]
NamespaceOf(peer_id) == IF peer_id = "carol@LAB" THEN "LAB" ELSE "CIC"

Destinations == {<<"*">>, <<"#", "CIC">>, <<"#", "LAB">>, <<"#", "XYZ">>, <<"b", "ob@CIC">>, <<>>}

\* (mutant) a target list that does not leave out the local peer_id
PublishTargets_WithLocal(destination) ==
    IF destination = <<"*">> THEN rt_connections
    ELSE IF destination # <<>> /\ Head(destination) = "#"
    THEN {id \in PeerIds : /\ peer_table[id] # NoPeer
                           /\ peer_table[id].namespace = destination[2]
                           /\ id \in rt_connections}
    ELSE {}

\* publish: target_peers
PublishTargets(destination) ==
    IF destination = <<"*">> THEN rt_connections \ {LocalPeerId}
    ELSE IF destination # <<>> /\ Head(destination) = "#"
    THEN {id \in PeerIds : /\ peer_table[id] # NoPeer
                           /\ peer_table[id].namespace = destination[2]
                           /\ id \in rt_connections
                           /\ id # LocalPeerId}
    ELSE {}

\* publish(destination, payload).  oversize: the frame exceeds 32 KiB and
\* send_json raises for every target; fail: the target whose socket write
\* raises OSError, so that _send_raw closes its connection ("" for none);
\* gone: the targets whose connection another thread closes and takes out of
\* the map before the loop comes to them, which the loop then skips
Publish(destination, oversize, fail, gone) ==
    LET targets == PublishTargets(destination)
        order == SelectSeq(PubOrder, LAMBDA id : id \in targets \ gone)
        base == Len(rt_records)
        made == [i \in 1..Len(order) |->
                    [MessageRecord(base + i, order[i], AwareTime(rt_now))
                        EXCEPT !.error = IF oversize THEN OversizeError ELSE NoError]]
        logs == [i \in 1..Len(order) |->
                    [require_ack |-> FALSE,
                     tx |-> IF oversize \/ order[i] = fail THEN 0 ELSE 1,
                     acked_at |-> -1, timeouts |-> 0]]
        closed == gone \cup (IF oversize THEN {} ELSE targets \cap {fail})
    IN /\ rt_send.pc = "idle"
       /\ gone \subseteq targets
       /\ fail \in (targets \ gone) \cup {""}
       /\ rt_records' = rt_records \o made
       /\ rt_log' = rt_log \o logs
       /\ rt_history' = IF oversize THEN rt_history
                        ELSE rt_history \o [i \in 1..Len(order) |-> base + i]
       /\ rt_connections' = rt_connections \ closed
       /\ peer_table' = [id \in PeerIds |->
                            IF id \in closed THEN MarkStale(peer_table, id)[id]
                            ELSE peer_table[id]]
       /\ pb_pubs' = pb_pubs \cup {base + i : i \in 1..Len(order)}
       /\ pb_last' = [n |-> pb_last.n + 1, op |-> "publish", destination |-> destination,
                      connections |-> rt_connections,
                      namespace |-> [id \in PeerIds |-> peer_table[id].namespace],
                      made |-> {base + i : i \in 1..Len(order)},
                      oversize |-> oversize, fail |-> fail, gone |-> gone]
       /\ UNCHANGED <<rt_now, rt_pending, rt_send, rt_inflight, rt_passes>>

\* a connection under peer_id is registered: the peer is in the table, by
\* discovery or by the inbound handshake
PubConnect(peer_id) ==
    /\ peer_id \notin rt_connections
    /\ rt_connections' = rt_connections \cup {peer_id}
    /\ peer_table' = IF peer_id \in PeerIds
                       THEN UpsertPeer(peer_table,
                                PeerInfo(peer_id, "10.0.0.2", 6000, NamespaceOf(peer_id),
                                         "CONNECTED", AwareTime(rt_now)))
                       ELSE peer_table
    /\ UNCHANGED <<rt_now, rt_records, rt_history, rt_pending, rt_send, rt_inflight,
                   rt_log, rt_passes, publishVars, notPublish>>

\* _on_connection_closed
PubClose(peer_id) ==
    /\ peer_id \in rt_connections
    /\ rt_connections' = rt_connections \ {peer_id}
    /\ peer_table' = IF peer_id \in PeerIds THEN MarkStale(peer_table, peer_id)
                       ELSE peer_table
    /\ UNCHANGED <<rt_now, rt_records, rt_history, rt_pending, rt_send, rt_inflight,
                   rt_log, rt_passes, publishVars, notPublish>>

\* a call of send, up to the return of send_json
PubSend ==
    /\ pb_last.n < MaxCalls
    /\ \E dst \in PubIds, require_ack \in BOOLEAN :
          /\ SendTransmit(dst, require_ack, FALSE, TRUE)
          /\ pb_last' = [n |-> pb_last.n + 1, op |-> "send", dst |-> dst,
                         returned |-> IF rt_records' = rt_records THEN "None"
                                                                 ELSE "record"]
    /\ UNCHANGED <<peer_table, pb_pubs, notPublish>>

PubPublish ==
    /\ pb_last.n < MaxCalls
    /\ \E destination \in Destinations, oversize \in BOOLEAN, fail \in {"", "bob@CIC"},
          gone \in {{}, {"carol@LAB"}} :
          Publish(destination, oversize, fail, gone)
    /\ UNCHANGED notPublish

\* time passes: long enough for a pending ACK to be overdue
PubTick ==
    /\ rt_now + ACK_TIMEOUT_SECONDS + 1 <= MaxRouterNow
    /\ rt_now' = rt_now + ACK_TIMEOUT_SECONDS + 1
    /\ UNCHANGED <<rt_connections, rt_records, rt_history, rt_pending, rt_send,
                   rt_inflight, rt_log, rt_passes, notRouter>>

PubConnected == \E peer_id \in PubIds : PubConnect(peer_id)
PubClosed == \E peer_id \in PubIds : PubClose(peer_id)

PublishInit == RdvInit /\ val_args = NoArgs /\ ClientIdle /\ AloneIdle

PublishNext ==
    \/ PubConnected \/ PubClosed \/ PubSend \/ RouterSendAppend \/ RouterSendRegister
    \/ PubPublish \/ RouterWatchdog \/ PubTick

SpecPublish == PublishInit /\ [][PublishNext]_vars

\* a call of send has just been made
SendCalled == pb_last'.n # pb_last.n /\ pb_last'.op = "send"

\* C17: send to a peer_id with no entry in the live-connections map
\* returns no record, transmits nothing, appends nothing to the outbound
\* history and adds nothing to the pending-ACK map
C17_SendToUnconnected ==
    [][(SendCalled /\ pb_last'.dst \notin rt_connections)
         => /\ pb_last'.returned = "None"
            /\ rt_records' = rt_records
            /\ rt_log' = rt_log
            /\ rt_history' = rt_history
            /\ rt_pending' = rt_pending
            /\ rt_send' = rt_send]_vars

\* send was called for a peer that is not connected while another peer is
C17_Witness ==
    /\ pb_last.op = "send"
    /\ pb_last.returned = "None"
    /\ pb_last.dst = "carol@LAB"
    /\ rt_connections = {"bob@CIC"}

\* the PUBs of the last publish call that were written to the connection
\* of a peer, and the records it made for the peer
PubSentTo(p) == {m \in pb_last.made : rt_records[m].dst = p /\ rt_log[m].tx = 1}
PubMadeFor(p) == {m \in pb_last.made : rt_records[m].dst = p}

\* the peers the claim names for the destination of the last publish call
PubIntended ==
    IF pb_last.destination = <<"*">> THEN pb_last.connections \ {LocalPeerId}
    ELSE IF pb_last.destination # <<>> /\ Head(pb_last.destination) = "#"
    THEN {id \in PeerIds : /\ pb_last.namespace[id] = pb_last.destination[2]
                           /\ id \in pb_last.connections}
    ELSE {}

\* no PUB record is in the pending-ACK map or has the ACK-timeout error
PubNeverPending ==
    /\ pb_pubs \cap rt_pending = {}
    /\ \A m \in pb_pubs : rt_records[m].error # AckTimeoutError

\* C18 as stated: publish("*") sends exactly one PUB to each connected
\* peer_id other than the local one, publish("#ns") exactly one to each
\* connected peer whose table namespace is ns and to nobody else, any other
\* destination sends nothing; no PUB is ever pending or timed out
C18_AsStated ==
    /\ pb_last.op = "publish" =>
          \A p \in PubIds :
              Cardinality(PubSentTo(p)) = IF p \in PubIntended THEN 1 ELSE 0
    /\ PubNeverPending

\* C18, amended: publish makes one record and one send_json call for each
\* of those peers that is still in the map when the loop comes to it, and
\* for nobody else; the PUB is written to the peer's connection unless the
\* frame exceeds 32 KiB (then it is written to nobody) or the write to
\* that peer's socket fails; no PUB is ever pending or timed out
C18_OnePubPerTarget ==
    /\ pb_last.op = "publish" =>
          \A p \in PubIds :
              /\ Cardinality(PubMadeFor(p)) =
                    IF p \in PubIntended \ pb_last.gone THEN 1 ELSE 0
              /\ Cardinality(PubSentTo(p)) =
                    IF p \in PubIntended \ pb_last.gone /\ ~pb_last.oversize
                       /\ p # pb_last.fail
                    THEN 1 ELSE 0
    /\ PubNeverPending

\* publish("#CIC") with every peer_id connected wrote one PUB, to bob; six
\* seconds later the watchdog has passed
C18_Witness ==
    /\ pb_last.op = "publish"
    /\ pb_last.destination = <<"#", "CIC">>
    /\ pb_last.connections = PubIds
    /\ Cardinality(PubSentTo("bob@CIC")) = 1
    /\ PubSentTo("carol@LAB") = {}
    /\ rt_now > ACK_TIMEOUT_SECONDS
    /\ rt_passes = 1

(***************************************************************************)
(* SpecReader: the reader thread of an established connection             *)
(* (client/peer_connection.py, _loop and _recv_line).  The remote peer     *)
(* writes frames, each a message followed by a newline; recv returns what  *)
(* has arrived, in chunks that need not end where a frame ends.            *)
(***************************************************************************)
MaxFrames == 2

ControlTypes == {"PING", "PONG", "HELLO", "HELLO_OK"}

\* the newline that ends a frame
Newline == [id |-> 0, type |-> "newline", parseable |-> FALSE]

\* what the remote peer can write as its id-th message: a JSON object of a
\* control type, of another type or with no type, or text that is not JSON
RemoteMessages(id) ==
    {[id |-> id, type |-> t, parseable |-> TRUE] : t \in ControlTypes \cup {"SEND", "none"}}
        \cup {[id |-> id, type |-> "none", parseable |-> FALSE]}

\* _handle_control_message: True for the types the connection keeps
HandleControlMessage(message) == message.type \in ControlTypes

\* _loop, for a line _recv_line returned: an empty line and a line that is
\* not JSON are passed over, a control message is handled by the
\* connection, any other message goes to the callback
Dispatch(line, passed) ==
    IF Len(line) # 1 \/ ~line[1].parseable THEN passed
    ELSE IF HandleControlMessage(line[1]) THEN passed
    ELSE Append(passed, line[1])

\* the remote peer writes a frame
ReaderRemoteWrites ==
    /\ Len(rd_sent) < MaxFrames
    /\ \E m \in RemoteMessages(Len(rd_sent) + 1) :
          /\ rd_sent' = Append(rd_sent, m)
          /\ rd_wire' = rd_wire \o <<m, Newline>>
    /\ UNCHANGED <<rd_buf, rd_taken, rd_passed, notReader>>

\* _recv_line: one recv of k units is added to buf; once buf holds a
\* newline, what is before the first newline is the line, and what is
\* after it is dropped with buf (`line, _ = buf.split(b"\n", 1)`)
ReaderRecv ==
    /\ \E k \in 1..Len(rd_wire) :
          LET buf == rd_buf \o SubSeq(rd_wire, 1, k)
              ends == {i \in 1..Len(buf) : buf[i] = Newline}
              first == CHOOSE i \in ends : \A j \in ends : i <= j
          IN /\ rd_wire' = SubSeq(rd_wire, k + 1, Len(rd_wire))
             /\ rd_taken' = rd_taken + k
             /\ IF ends = {}
                THEN rd_buf' = buf /\ UNCHANGED rd_passed
                ELSE /\ rd_buf' = <<>>
                     /\ rd_passed' = Dispatch(SubSeq(buf, 1, first - 1), rd_passed)
    /\ UNCHANGED <<rd_sent, notReader>>

ReaderInit == RdvInit /\ val_args = NoArgs /\ ClientIdle /\ AloneIdle

ReaderNext == ReaderRemoteWrites \/ ReaderRecv

SpecReader == ReaderInit /\ [][ReaderNext]_vars

\* the i-th message written and its newline were returned by recv
Received(i) == rd_taken >= 2 * i

\* how often the i-th message written was passed to the callback
TimesPassed(i) == Cardinality({j \in 1..Len(rd_passed) : rd_passed[j] = rd_sent[i]})

\* C19: a received PING, PONG, HELLO or HELLO_OK is never passed to the
\* message callback, and every received, parseable message of any other
\* type is passed to it exactly once
C19_AsStated ==
    /\ \A j \in 1..Len(rd_passed) : rd_passed[j].type \notin ControlTypes
    /\ \A i \in 1..Len(rd_sent) :
          (Received(i) /\ rd_sent[i].parseable /\ rd_sent[i].type \notin ControlTypes)
             => TimesPassed(i) = 1

\* what holds: no control message and no unparseable line is passed, and no
\* message is passed twice
C19_NoControlNoRepeat ==
    /\ \A j \in 1..Len(rd_passed) :
          rd_passed[j].type \notin ControlTypes /\ rd_passed[j].parseable
    /\ \A i \in 1..Len(rd_sent) : TimesPassed(i) <= 1

\* two SENDs arrived in one chunk: all of both was received, the first was
\* passed to the callback, the second never was and never will be
C19_FrameDropped ==
    /\ Len(rd_sent) = 2
    /\ rd_sent[1].type = "SEND" /\ rd_sent[2].type = "SEND"
    /\ rd_wire = <<>> /\ rd_buf = <<>>
    /\ TimesPassed(1) = 1
    /\ TimesPassed(2) = 0

\* the frames written that the reader owes the message callback, in the
\* order written
CallbackFrames ==
    SelectSeq(rd_sent, LAMBDA m : m.parseable /\ m.type \notin ControlTypes)

IsPrefix(s, t) == Len(s) <= Len(t) /\ SubSeq(t, 1, Len(s)) = s

\* C23 (as stated): on one connection every frame the sender wrote is
\* dispatched by the reader exactly once and in the order sent, however
\* recv splits or coalesces the byte stream: what was passed on is at all
\* times a prefix of what was written, and all of it once recv has returned
\* everything.
C23_AsStated ==
    /\ IsPrefix(rd_passed, CallbackFrames)
    /\ (rd_wire = <<>> /\ rd_buf = <<>>) => rd_passed = CallbackFrames

\* recv returned two frames in one chunk, and only the first was dispatched
C23_SecondOfChunkLost ==
    /\ Len(CallbackFrames) = 2
    /\ rd_taken = 4
    /\ rd_wire = <<>> /\ rd_buf = <<>>
    /\ rd_passed = <<CallbackFrames[1]>>

(***************************************************************************)
(* SpecStart: P2PClient.start and shutdown (client/p2p_client.py).  Each   *)
(* call start() makes is a step; the threads it starts run on.             *)
(***************************************************************************)
MaxStarts == 2

\* what rendezvous.register meets: an OK reply, an ERROR reply, a network
\* error, a reply that is not JSON; all but the first raise RendezvousError
RegisterReplies == {"OK", "ERROR", "network_error", "not_json"}

StartCall(reply, outcome, raised) == [reply |-> reply, outcome |-> outcome, raised |-> raised]

\* the call under way (or made last) gets its outcome
StartOutcome(reply, outcome, raised) ==
    [st_calls EXCEPT ![Len(st_calls)] = StartCall(reply, outcome, raised)]

\* start(): `if self._running: return`, else self._running = True
StartEnter ==
    /\ st_pc = "out"
    /\ Len(st_calls) < MaxStarts
    /\ IF st_running
       THEN /\ st_calls' = Append(st_calls, StartCall("none", "ignored", FALSE))
            /\ UNCHANGED <<st_pc, st_running>>
       ELSE /\ st_calls' = Append(st_calls, StartCall("none", "pending", FALSE))
            /\ st_running' = TRUE
            /\ st_pc' = "peer_server"
    /\ UNCHANGED <<st_server, st_threads, st_unconnected>>

\* self.peer_server.start(); OSError: not running, raise
StartPeerServer(ok) ==
    /\ st_pc = "peer_server"
    /\ IF ok
       THEN st_server' = TRUE /\ st_pc' = "register" /\ UNCHANGED <<st_running, st_calls>>
       ELSE /\ st_running' = FALSE
            /\ st_pc' = "out"
            /\ st_calls' = StartOutcome("none", "server_failed", TRUE)
            /\ UNCHANGED st_server
    /\ UNCHANGED <<st_threads, st_unconnected>>

\* (mutant) a start that leaves the inbound server up when REGISTER fails
StartRegister_ServerLeftUp(reply) ==
    /\ st_pc = "register"
    /\ st_running' = (reply = "OK")
    /\ st_pc' = IF reply = "OK" THEN "cli" ELSE "out"
    /\ st_calls' = IF reply = "OK" THEN StartOutcome(reply, "pending", FALSE)
                    ELSE StartOutcome(reply, "register_failed", TRUE)
    /\ UNCHANGED <<st_server, st_threads, st_unconnected>>

\* self.rendezvous.register(...); RendezvousError: not running, stop the
\* inbound server, raise
StartRegister(reply) ==
    /\ st_pc = "register"
    /\ IF reply = "OK"
       THEN /\ st_pc' = "cli"
            /\ st_calls' = StartOutcome(reply, "pending", FALSE)
            /\ UNCHANGED <<st_running, st_server>>
       ELSE /\ st_running' = FALSE
            /\ st_server' = FALSE
            /\ st_pc' = "out"
            /\ st_calls' = StartOutcome(reply, "register_failed", TRUE)
    /\ UNCHANGED <<st_threads, st_unconnected>>

\* self.cli.start(), self.router.start_ack_checker(),
\* self._start_discovery_worker(): a thread is started
StartThread(pc, thread, next) ==
    /\ st_pc = pc
    /\ st_threads' = st_threads \cup {thread}
    /\ st_pc' = next
    /\ UNCHANGED <<st_running, st_server, st_unconnected, st_calls>>

\* self.discover_once(): unconnected = a peer was found that could not be
\* connected to
StartDiscoverOnce(unconnected) ==
    /\ st_pc = "discover_once"
    /\ st_unconnected' = unconnected
    /\ st_pc' = "reconcile"
    /\ UNCHANGED <<st_running, st_server, st_threads, st_calls>>

\* self.reconcile_peer_connections(): with an unconnected peer in the
\* table it raises AttributeError, which leaves start()
StartReconcile ==
    /\ st_pc = "reconcile"
    /\ IF st_unconnected
       THEN /\ st_pc' = "out"
            /\ st_calls' = StartOutcome("OK", "reconcile_raised", TRUE)
       ELSE /\ st_pc' = "discovery_worker"
            /\ UNCHANGED st_calls
    /\ UNCHANGED <<st_running, st_server, st_threads, st_unconnected>>

\* self._start_reconnect_worker(), and start() returns
StartReconnectWorker ==
    /\ st_pc = "reconnect_worker"
    /\ st_threads' = st_threads \cup {"reconnect"}
    /\ st_pc' = "out"
    /\ st_calls' = StartOutcome("OK", "started", FALSE)
    /\ UNCHANGED <<st_running, st_server, st_unconnected>>

\* shutdown(), called by the thread that called start(): nothing when not
\* running; else the workers, the watchdog, the inbound server and the CLI
\* are stopped and the client is not running
Shutdown ==
    /\ st_pc = "out"
    /\ st_running
    /\ st_threads' = {}
    /\ st_server' = FALSE
    /\ st_running' = FALSE
    /\ UNCHANGED <<st_pc, st_unconnected, st_calls>>

\* the discovery thread's discover_once()
DiscoveryWorker(unconnected) ==
    /\ "discovery" \in st_threads
    /\ st_unconnected' = unconnected
    /\ UNCHANGED <<st_pc, st_running, st_server, st_threads, st_calls>>

\* the reconnect thread's reconcile_peer_connections(): the AttributeError
\* ends the thread
ReconnectWorker ==
    /\ "reconnect" \in st_threads
    /\ st_unconnected
    /\ st_threads' = st_threads \ {"reconnect"}
    /\ UNCHANGED <<st_pc, st_running, st_server, st_unconnected, st_calls>>

StStart == StartEnter /\ UNCHANGED notStart
StPeerServer == (\E ok \in BOOLEAN : StartPeerServer(ok)) /\ UNCHANGED notStart
StRegister == (\E reply \in RegisterReplies : StartRegister(reply)) /\ UNCHANGED notStart
StCli == StartThread("cli", "cli", "ack_checker") /\ UNCHANGED notStart
StAckChecker == StartThread("ack_checker", "ack-checker", "discover_once") /\ UNCHANGED notStart
StDiscoverOnce == (\E u \in BOOLEAN : StartDiscoverOnce(u)) /\ UNCHANGED notStart
StReconcile == StartReconcile /\ UNCHANGED notStart
StDiscoveryWorker == StartThread("discovery_worker", "discovery", "reconnect_worker") /\ UNCHANGED notStart
StReconnectWorker == StartReconnectWorker /\ UNCHANGED notStart
StShutdown == Shutdown /\ UNCHANGED notStart
StDiscovery == (\E u \in BOOLEAN : DiscoveryWorker(u)) /\ UNCHANGED notStart
StReconnect == ReconnectWorker /\ UNCHANGED notStart

StartInit == RdvInit /\ val_args = NoArgs /\ ClientIdle /\ AloneIdle

StartNext ==
    \/ StStart
    \/ StPeerServer
    \/ StRegister
    \/ StCli
    \/ StAckChecker
    \/ StDiscoverOnce
    \/ StReconcile
    \/ StDiscoveryWorker
    \/ StReconnectWorker
    \/ StShutdown
    \/ StDiscovery
    \/ StReconnect

SpecStart == StartInit /\ [][StartNext]_vars

\* the start() call made last
LastStart == st_calls[Len(st_calls)]

\* the last start() call has ended with REGISTER failed
RegisterFailed ==
    /\ st_calls # <<>>
    /\ st_pc = "out"
    /\ LastStart.outcome = "register_failed"

ShutdownEvent(op, peer) == [op |-> op, peer |-> peer]

\* the events of a loop over the peers of a set, in some order
RECURSIVE EventsOf(_, _)
EventsOf(op, peers) ==
    IF peers = {} THEN <<>>
    ELSE LET p == CHOOSE q \in peers : TRUE
         IN <<ShutdownEvent(op, p)>> \o EventsOf(op, peers \ {p})

\* `if not self._running: return`, then _stop_discovery_worker(),
\* _stop_reconnect_worker(), router.stop_ack_checker()
ShutdownStopWorkers ==
    /\ sd_pc = "out"
    /\ sd_running
    /\ sd_threads' = sd_threads \ {"discovery", "reconnect", "ack-checker"}
    /\ sd_log' = sd_log \o <<ShutdownEvent("stop_discovery", ""),
                             ShutdownEvent("stop_reconnect", ""),
                             ShutdownEvent("stop_ack_checker", "")>>
    /\ sd_pc' = "bye"
    /\ UNCHANGED <<sd_running, sd_server, sd_map, sd_open>>

\* `for peer_id in list(self.connections.keys()): send_bye(...)`; a write
\* that fails closes the connection, whose callback pops it from the map
ShutdownSendBye(failed) ==
    /\ sd_pc = "bye"
    /\ failed \subseteq sd_map
    /\ sd_log' = sd_log \o EventsOf("bye", sd_map)
    /\ sd_map' = sd_map \ failed
    /\ sd_open' = sd_open \ failed
    /\ sd_pc' = "close"
    /\ UNCHANGED <<sd_running, sd_server, sd_threads>>

\* time.sleep(0.5), then `for connection in list(self.connections.values()):
\* connection.close()`
ShutdownCloseAll ==
    /\ sd_pc = "close"
    /\ sd_log' = sd_log \o EventsOf("close", sd_map)
    /\ sd_open' = sd_open \ sd_map
    /\ sd_map' = {}
    /\ sd_pc' = "clear"
    /\ UNCHANGED <<sd_running, sd_server, sd_threads>>

\* self.connections.clear()
ShutdownClear ==
    /\ sd_pc = "clear"
    /\ sd_map' = {}
    /\ sd_pc' = "peer_server"
    /\ UNCHANGED <<sd_running, sd_server, sd_threads, sd_open, sd_log>>

\* self.peer_server.stop()
ShutdownStopServer ==
    /\ sd_pc = "peer_server"
    /\ sd_server' = FALSE
    /\ sd_log' = Append(sd_log, ShutdownEvent("stop_server", ""))
    /\ sd_pc' = "cli"
    /\ UNCHANGED <<sd_running, sd_threads, sd_map, sd_open>>

\* self.cli.stop()
ShutdownStopCli ==
    /\ sd_pc = "cli"
    /\ sd_threads' = sd_threads \ {"cli"}
    /\ sd_pc' = "unregister"
    /\ UNCHANGED <<sd_running, sd_server, sd_map, sd_open, sd_log>>

\* self.rendezvous.unregister(...), RendezvousError logged; then
\* self._running = False
ShutdownUnregister(ok) ==
    /\ sd_pc = "unregister"
    /\ sd_log' = Append(sd_log, ShutdownEvent(IF ok THEN "unregister" ELSE "unregister_failed", ""))
    /\ sd_running' = FALSE
    /\ sd_pc' = "done"
    /\ UNCHANGED <<sd_server, sd_threads, sd_map, sd_open>>

\* _handle_inbound_socket on a PeerServer thread: a peer that has no entry
\* in the map is registered, whatever shutdown() is doing
InboundHandoff(peer_id) ==
    /\ sd_server
    /\ peer_id \notin sd_map
    /\ sd_map' = sd_map \cup {peer_id}
    /\ sd_open' = sd_open \cup {peer_id}
    /\ UNCHANGED <<sd_pc, sd_running, sd_server, sd_threads, sd_log>>

\* the reader of a connection meets an error: close(), whose callback pops
\* the peer from the map
ReaderCloses(peer_id) ==
    /\ peer_id \in sd_open \cap sd_map
    /\ sd_map' = sd_map \ {peer_id}
    /\ sd_open' = sd_open \ {peer_id}
    /\ UNCHANGED <<sd_pc, sd_running, sd_server, sd_threads, sd_log>>

SdStopWorkers == ShutdownStopWorkers /\ UNCHANGED notShutdown
SdSendBye == (\E failed \in SUBSET PeerIds : ShutdownSendBye(failed)) /\ UNCHANGED notShutdown
SdCloseAll == ShutdownCloseAll /\ UNCHANGED notShutdown
SdClear == ShutdownClear /\ UNCHANGED notShutdown
SdStopServer == ShutdownStopServer /\ UNCHANGED notShutdown
SdStopCli == ShutdownStopCli /\ UNCHANGED notShutdown
SdUnregister == (\E ok \in BOOLEAN : ShutdownUnregister(ok)) /\ UNCHANGED notShutdown
SdInbound == (\E p \in PeerIds : InboundHandoff(p)) /\ UNCHANGED notShutdown
SdReaderCloses == (\E p \in PeerIds : ReaderCloses(p)) /\ UNCHANGED notShutdown

\* a client that start() has brought up, with some peers connected
ShutdownInit ==
    /\ RdvInit /\ val_args = NoArgs /\ ClientIdle
    /\ PersistIdle /\ TableHistIdle /\ un_calls = <<>> /\ CloseIdle /\ ReconcileIdle
    /\ PublishIdle /\ ReaderIdle /\ StartIdle /\ DiscoverIdle /\ HelloIdle
    /\ OutboundIdle /\ IncomingIdle /\ LifeIdle /\ LiveIdle /\ WorkIdle
    /\ sd_pc = "out"
    /\ sd_running = TRUE
    /\ sd_server = TRUE
    /\ sd_threads = {"cli", "ack-checker", "discovery", "reconnect"}
    /\ sd_map \in SUBSET PeerIds
    /\ sd_open = sd_map
    /\ sd_log = <<>>

ShutdownNext ==
    \/ SdStopWorkers
    \/ SdSendBye
    \/ SdCloseAll
    \/ SdClear
    \/ SdStopServer
    \/ SdStopCli
    \/ SdUnregister
    \/ SdInbound
    \/ SdReaderCloses

SpecShutdown == ShutdownInit /\ [][ShutdownNext]_vars

\* the place of a step in the order the claim gives
StepRank(op) ==
    CASE op \in {"stop_discovery", "stop_reconnect", "stop_ack_checker"} -> 1
      [] op = "bye" -> 2
      [] op = "close" -> 3
      [] op = "stop_server" -> 4
      [] OTHER -> 5

StepsInOrder ==
    \A i, j \in 1..Len(sd_log) : i < j => StepRank(sd_log[i].op) <= StepRank(sd_log[j].op)

\* C21 (as stated): shutdown() stops the loops and the watchdog, then sends
\* BYE on every registered connection, then closes every connection, then
\* stops the inbound server, then sends UNREGISTER; and whether or not
\* UNREGISTER fails it ends with the client not running, every connection
\* closed and the live-connections map empty.
C21_AsStated ==
    /\ StepsInOrder
    /\ sd_pc = "done" => (~sd_running /\ sd_map = {} /\ sd_open = {})

\* shutdown() has ended and a connection handed over meanwhile is still
\* registered and open
C21_LeftRegistered ==
    /\ sd_pc = "done"
    /\ ~sd_running
    /\ sd_map # {}
    /\ sd_open # {}

(***************************************************************************)
(* SpecDiscover: P2PClient.discover_once and PeerTable.mark_missing_as_    *)
(* stale (client/p2p_client.py, client/peer_table.py), next to the PONGs   *)
(* that refresh last_seen_at.                                              *)
(***************************************************************************)
MaxDiscoverTicks == 3
discovery_interval == 15

\* mark_missing_as_stale, from the i-th peer of the table on: a peer not
\* seen whose last_seen_at is more than stale_after before now becomes
\* STALE; subtracting a naive last_seen_at from the aware now raises
\* TypeError, which ends the loop
RECURSIVE MarkMissingFrom(_, _, _, _, _, _)
MarkMissingFrom(table, order, i, seen_peer_ids, stale_after, now) ==
    IF i > Len(order) THEN [table |-> table, raised |-> FALSE]
    ELSE LET id == order[i]
             seen_at == table[id].last_seen_at
         IN IF id \in seen_peer_ids \/ seen_at = NoTime
            THEN MarkMissingFrom(table, order, i + 1, seen_peer_ids, stale_after, now)
            ELSE IF ~seen_at.aware
            THEN [table |-> table, raised |-> TRUE]
            ELSE MarkMissingFrom(IF now - seen_at.at > stale_after
                                 THEN MarkStale(table, id) ELSE table,
                                 order, i + 1, seen_peer_ids, stale_after, now)

MarkMissingAsStale(table, order, seen_peer_ids, stale_after, now) ==
    MarkMissingFrom(table, order, 1, seen_peer_ids, stale_after, now)

\* the peers of a DISCOVER result, upserted one after the other
RECURSIVE UpsertAll(_, _, _)
UpsertAll(table, ids, now) ==
    IF ids = {} THEN table
    ELSE LET id == CHOOSE x \in ids : TRUE
         IN UpsertAll(UpsertPeer(table, PeerInfo(id, "10.0.0.2", 6000, NamespaceOf(id),
                                                 "DISCOVERED", AwareTime(now))),
                      ids \ {id}, now)

RECURSIVE AppendNew(_, _)
AppendNew(order, ids) ==
    IF ids = {} THEN order
    ELSE LET id == CHOOSE x \in ids : TRUE
         IN AppendNew(IF \E i \in 1..Len(order) : order[i] = id THEN order
                      ELSE Append(order, id), ids \ {id})

\* discover_once: ok = FALSE is a DISCOVER that raised RendezvousError;
\* else the peers of the result other than the local one are upserted and,
\* when there is one at least, the others are marked.  The connects made
\* to new peers change the live-connections map only.
DiscoverOnce(ok, result) ==
    LET seen_ids == result \ {LocalPeerId}
        upserted == UpsertAll(peer_table, seen_ids, dc_now)
        order == AppendNew(dc_order, seen_ids)
        marked == IF seen_ids # {}
                  THEN MarkMissingAsStale(upserted, order, seen_ids,
                                          discovery_interval * 2, dc_now)
                  ELSE [table |-> upserted, raised |-> FALSE]
    IN /\ dc_last' = [n |-> 1 - dc_last.n, ok |-> ok,
                      result |-> IF ok THEN result ELSE {}, at |-> dc_now,
                      raised |-> ok /\ marked.raised]
       /\ peer_table' = IF ok THEN marked.table ELSE peer_table
       /\ dc_order' = IF ok THEN order ELSE dc_order
       /\ UNCHANGED dc_now

\* _handle_pong on the connection to a known peer:
\* peer.last_seen_at = datetime.now()
DiscoverPong(peer_id) ==
    /\ peer_table[peer_id] # NoPeer
    /\ peer_table' = [peer_table EXCEPT ![peer_id].last_seen_at = NaiveTime(dc_now)]
    /\ UNCHANGED <<dc_now, dc_order, dc_last>>

DcDiscoverOnce ==
    /\ \E ok \in BOOLEAN, result \in SUBSET (PeerIds \cup {LocalPeerId}) :
          DiscoverOnce(ok, result)
    /\ UNCHANGED notDiscover

DcPong == (\E peer_id \in PeerIds : DiscoverPong(peer_id)) /\ UNCHANGED notDiscover

\* a discovery interval goes by
DcTick ==
    /\ dc_now < MaxDiscoverTicks * discovery_interval
    /\ dc_now' = dc_now + discovery_interval
    /\ UNCHANGED <<peer_table, dc_order, dc_last, notDiscover>>

DiscoverInit == RdvInit /\ val_args = NoArgs /\ ClientIdle /\ AloneIdle

DiscoverNext == DcDiscoverOnce \/ DcPong \/ DcTick

SpecDiscover == DiscoverInit /\ [][DiscoverNext]_vars

\* a known peer last seen more than 2 x discovery_interval ago
SeenLongAgo(id) ==
    /\ peer_table[id] # NoPeer
    /\ peer_table[id].last_seen_at # NoTime
    /\ dc_now - peer_table[id].last_seen_at.at > 2 * discovery_interval

\* C27 (as stated): after every discover_once whose DISCOVER succeeded,
\* each known peer absent from the result and last seen more than
\* 2 x discovery_interval ago is STALE, also when the result is empty or
\* holds the local peer only; a peer present in the result is not marked
\* stale by the pass.
C27_AsStated ==
    [][(dc_last'.n # dc_last.n /\ dc_last'.ok) =>
          \A id \in PeerIds :
              /\ (SeenLongAgo(id) /\ id \notin dc_last'.result)
                    => peer_table'[id].status = "STALE"
              /\ id \in dc_last'.result => peer_table'[id].status # "STALE"]_vars

\* a discover_once that got an empty result has just left a peer last seen
\* long ago as it was
C27_MissingNotStale ==
    /\ dc_last.n = 1 /\ dc_last.ok /\ ~dc_last.raised
    /\ dc_last.result \subseteq {LocalPeerId}
    /\ dc_last.at = dc_now
    /\ \E id \in PeerIds :
          /\ SeenLongAgo(id)
          /\ peer_table[id].last_seen_at.aware
          /\ peer_table[id].status = "DISCOVERED"

(***************************************************************************)
(* SpecHello: PeerServer._handle_connection (client/peer_server.py), the   *)
(* thread that reads the first frame of an accepted socket.                *)
(***************************************************************************)
MaxSockets == 2

\* what the first line read from an accepted socket can be
FrameKinds ==
    {"hello",            \* a HELLO object with a str peer_id
     "hello_features",   \* the same, with features that cannot be listed
     "no_peer_id",       \* a HELLO object without peer_id
     "peer_id_not_str",  \* a HELLO object whose peer_id is a number
     "other_type",       \* a JSON object of another type
     "not_object",       \* JSON that is not an object: a number, a list
     "not_json",         \* text that is not JSON
     "oversized",        \* more than MAX_LINE_BYTES without a newline
     "eof",              \* the remote end closed without sending
     "timeout"}          \* nothing, or half a line, within the timeout

FirstFrames == {[kind |-> k, peer_id |-> id] : k \in FrameKinds, id \in PeerIds}

HelloWithPeerId(frame) == frame.kind \in {"hello", "hello_features"}

\* what _handle_connection did with a socket
Handled(closed, hello_ok, handed, upserted, raised) ==
    [closed |-> closed, hello_ok |-> hello_ok, handed |-> handed,
     upserted |-> upserted, raised |-> raised]

\* (mutant) a handshake that does not look at the type of the first frame
HandleConnection_AnyType(frame, send_ok, callback_ok) ==
    IF frame.kind \in {"hello", "other_type"}
    THEN Handled(~send_ok \/ ~callback_ok, send_ok, send_ok, TRUE, FALSE)
    ELSE Handled(TRUE, FALSE, FALSE, FALSE, FALSE)

\* _handle_connection: JSONDecodeError and ValueError (an oversized line)
\* close the socket, as do a type other than HELLO and a peer_id that is no
\* str; an exception nobody catches (socket.timeout, AttributeError for
\* JSON that is no object, TypeError for features) ends the thread, and
\* the socket, which nothing refers to any more, is closed with it.  A
\* HELLO is answered: the peer is upserted, HELLO_OK is written (send_ok)
\* and the socket handed to on_peer_connected (callback_ok: it returns)
HandleConnection(frame, send_ok, callback_ok) ==
    CASE frame.kind \in {"not_json", "eof", "oversized"} ->
            Handled(TRUE, FALSE, FALSE, FALSE, FALSE)
      [] frame.kind \in {"timeout", "not_object", "hello_features"} ->
            Handled(TRUE, FALSE, FALSE, FALSE, TRUE)
      [] frame.kind \in {"other_type", "no_peer_id", "peer_id_not_str"} ->
            Handled(TRUE, FALSE, FALSE, FALSE, FALSE)
      [] frame.kind = "hello" ->
            IF ~send_ok THEN Handled(TRUE, FALSE, FALSE, TRUE, FALSE)
            ELSE Handled(~callback_ok, TRUE, TRUE, TRUE, FALSE)

\* the PeerInfo _handle_connection builds from the address observed
InboundPeerInfo(peer_id, now) ==
    PeerInfo(peer_id, "10.0.0.9", EphemeralPort, NamespaceOf(peer_id), "CONNECTED",
             AwareTime(now))

\* the accept loop takes a socket and starts a thread for it
HelloAccept(frame) ==
    /\ Len(hs_socks) < MaxSockets
    /\ hs_socks' = Append(hs_socks, [frame |-> frame, done |-> FALSE,
                                     before |-> peer_table, after |-> peer_table,
                                     did |-> Handled(FALSE, FALSE, FALSE, FALSE, FALSE)])
    /\ UNCHANGED peer_table

\* the thread of socket i runs _handle_connection
HelloHandle(i, send_ok, callback_ok) ==
    LET sock == hs_socks[i]
        did == HandleConnection(sock.frame, send_ok, callback_ok)
        table == IF did.upserted
                 THEN UpsertPeer(peer_table, InboundPeerInfo(sock.frame.peer_id, 0))
                 ELSE peer_table
    IN /\ ~sock.done
       /\ peer_table' = table
       /\ hs_socks' = [hs_socks EXCEPT ![i] =
                          [@ EXCEPT !.done = TRUE, !.did = did,
                                    !.before = peer_table, !.after = table]]

HsAccept == (\E frame \in FirstFrames : HelloAccept(frame)) /\ UNCHANGED notHello

HsHandle ==
    /\ \E i \in 1..Len(hs_socks), send_ok \in BOOLEAN, callback_ok \in BOOLEAN :
          HelloHandle(i, send_ok, callback_ok)
    /\ UNCHANGED notHello

HelloInit == RdvInit /\ val_args = NoArgs /\ ClientIdle /\ AloneIdle

HelloNext == HsAccept \/ HsHandle

SpecHello == HelloInit /\ [][HelloNext]_vars

HandshakesOver == \A i \in 1..Len(hs_socks) : hs_socks[i].done

\* the peers a socket was handed over for and registered: the ones for
\* which _handle_inbound_socket returned, having put a connection in the
\* map or found one there
HandedOver ==
    {hs_socks[i].frame.peer_id : i \in {k \in 1..Len(hs_socks) :
        hs_socks[k].did.handed /\ ~hs_socks[k].did.closed}}

\* C37 (as stated): whenever no thread is in the middle of a connect, a
\* handoff or a close, every peer whose PeerTable status is CONNECTED has a
\* live connection registered in the live-connections map under its
\* peer_id.
C37_AsStated ==
    HandshakesOver =>
        \A id \in PeerIds : peer_table[id].status = "CONNECTED" => id \in HandedOver

\* one socket was accepted, its HELLO read and the peer upserted as
\* CONNECTED; the write of HELLO_OK failed and the socket was closed: no
\* connection was ever made for the peer, and the table says CONNECTED
C37_ConnectedWithoutConnection ==
    /\ Len(hs_socks) = 1
    /\ hs_socks[1].done
    /\ hs_socks[1].frame.kind = "hello"
    /\ hs_socks[1].did.closed /\ ~hs_socks[1].did.hello_ok /\ ~hs_socks[1].did.handed
    /\ peer_table[hs_socks[1].frame.peer_id].status = "CONNECTED"

(***************************************************************************)
(* SpecOutbound: P2PClient.connect_to_peer and PeerConnection.             *)
(* connect_outbound (client/p2p_client.py, client/peer_connection.py) for  *)
(* one remote peer, ConnPeer, next to the inbound handoff and the readers  *)
(* that write the same entry of the live-connections map.                  *)
(***************************************************************************)
MaxAttempts == 2

NoConnection == [kind |-> "none", att |-> 0]
InboundConnection == [kind |-> "inbound", att |-> 0]
OutboundConnection(i) == [kind |-> "outbound", att |-> i]

\* what connect_outbound can read as the reply to its HELLO
HelloReplies ==
    {"HELLO_OK", "HELLO_REJECT", "other_type", "not_object", "not_json",
     "oversized", "timeout", "eof"}

\* a connect_to_peer call that has just begun
NewAttempt ==
    [pc |-> "check", sock |-> "none", hello_sent |-> FALSE, reply |-> "none",
     added |-> FALSE, removed |-> FALSE, result |-> "pending"]

\* (mutant) a handshake that takes every JSON object for HELLO_OK
ReplyAccepted_AnyObject(reply) == reply \in {"HELLO_OK", "HELLO_REJECT", "other_type"}

\* connect_outbound: the reply is JSON, an object, and of type HELLO_OK
ReplyAccepted(reply) == reply = "HELLO_OK"

\* _on_connection_closed, called by close(): the entry of the peer is
\* popped, whichever connection it holds
PoppedBy(i) == [ob_atts EXCEPT ![i].removed = @ \/ ob_map # NoConnection]

OutboundBegin ==
    /\ Len(ob_atts) < MaxAttempts
    /\ ob_atts' = Append(ob_atts, NewAttempt)
    /\ UNCHANGED ob_map

\* connect_to_peer: `if peer.peer_id in self.connections: return True`
OutboundCheck(i) ==
    /\ ob_atts[i].pc = "check"
    /\ ob_atts' = [ob_atts EXCEPT ![i] =
                      IF ob_map # NoConnection
                      THEN [@ EXCEPT !.pc = "done", !.result = "True"]
                      ELSE [@ EXCEPT !.pc = "tcp"]]
    /\ UNCHANGED ob_map

\* connect_outbound: socket.create_connection; OSError leaves
\* connect_to_peer through `except Exception` with False
OutboundTcp(i, ok) ==
    /\ ob_atts[i].pc = "tcp"
    /\ ob_atts' = [ob_atts EXCEPT ![i] =
                      IF ok THEN [@ EXCEPT !.pc = "hello", !.sock = "open"]
                      ELSE [@ EXCEPT !.pc = "done", !.result = "False"]]
    /\ UNCHANGED ob_map

\* connect_outbound: connection.send_json(HELLO); a write that fails makes
\* _send_raw close the connection, whose callback pops the map
OutboundHello(i, ok) ==
    /\ ob_atts[i].pc = "hello"
    /\ IF ok
       THEN /\ ob_atts' = [ob_atts EXCEPT ![i] = [@ EXCEPT !.pc = "reply",
                                                           !.hello_sent = TRUE]]
            /\ UNCHANGED ob_map
       ELSE /\ ob_atts' = [PoppedBy(i) EXCEPT ![i].pc = "reply", ![i].sock = "closed"]
            /\ ob_map' = NoConnection

\* connect_outbound: _recv_line and what follows.  On a closed socket recv
\* raises OSError.  Text that is not JSON (end-of-stream included) and an
\* object of another type close the socket and raise RuntimeError; a
\* timeout, an oversized line and JSON that is no object raise with the
\* socket open, which is closed when connect_to_peer lets go of the
\* connection.  In each case connect_to_peer returns False.
OutboundReply(i, reply) ==
    /\ ob_atts[i].pc = "reply"
    /\ ob_atts' = [ob_atts EXCEPT ![i] =
                      IF @.sock = "closed"
                      THEN [@ EXCEPT !.pc = "done", !.result = "False"]
                      ELSE IF ReplyAccepted(reply)
                      THEN [@ EXCEPT !.pc = "recheck", !.reply = reply]
                      ELSE [@ EXCEPT !.pc = "done", !.reply = reply,
                                     !.sock = "closed", !.result = "False"]]
    /\ UNCHANGED ob_map

\* connect_to_peer: the second look at the map; with an entry there the
\* new connection is closed, and its callback pops the entry
OutboundRecheck(i) ==
    /\ ob_atts[i].pc = "recheck"
    /\ IF ob_map # NoConnection
       THEN /\ ob_atts' = [PoppedBy(i) EXCEPT ![i].pc = "done", ![i].sock = "closed",
                                              ![i].result = "True"]
            /\ ob_map' = NoConnection
       ELSE /\ ob_atts' = [ob_atts EXCEPT ![i].pc = "register"]
            /\ UNCHANGED ob_map

\* self.connections[peer.peer_id] = connection
OutboundRegister(i) ==
    /\ ob_atts[i].pc = "register"
    /\ ob_map' = OutboundConnection(i)
    /\ ob_atts' = [ob_atts EXCEPT ![i].pc = "start_reader", ![i].added = TRUE]

\* connection.start_reader(); return True
OutboundStartReader(i) ==
    /\ ob_atts[i].pc = "start_reader"
    /\ ob_atts' = [ob_atts EXCEPT ![i].pc = "done", ![i].result = "True"]
    /\ UNCHANGED ob_map

\* _handle_inbound_socket registers a connection ConnPeer opened
OutboundInboundHandoff ==
    /\ ob_map = NoConnection
    /\ ob_map' = InboundConnection
    /\ UNCHANGED ob_atts

\* the reader of the registered connection meets an error and closes it
OutboundReaderCloses ==
    /\ ob_map # NoConnection
    /\ ob_map' = NoConnection
    /\ ob_atts' = IF ob_map.kind = "outbound"
                  THEN [ob_atts EXCEPT ![ob_map.att].sock = "closed"]
                  ELSE ob_atts

ObBegin == OutboundBegin /\ UNCHANGED notOutbound
ObCheck == (\E i \in 1..Len(ob_atts) : OutboundCheck(i)) /\ UNCHANGED notOutbound
ObTcp == (\E i \in 1..Len(ob_atts), ok \in BOOLEAN : OutboundTcp(i, ok)) /\ UNCHANGED notOutbound
ObHello == (\E i \in 1..Len(ob_atts), ok \in BOOLEAN : OutboundHello(i, ok)) /\ UNCHANGED notOutbound
ObReply ==
    /\ \E i \in 1..Len(ob_atts), reply \in HelloReplies : OutboundReply(i, reply)
    /\ UNCHANGED notOutbound
ObRecheck == (\E i \in 1..Len(ob_atts) : OutboundRecheck(i)) /\ UNCHANGED notOutbound
ObRegister == (\E i \in 1..Len(ob_atts) : OutboundRegister(i)) /\ UNCHANGED notOutbound
ObStartReader == (\E i \in 1..Len(ob_atts) : OutboundStartReader(i)) /\ UNCHANGED notOutbound
ObInbound == OutboundInboundHandoff /\ UNCHANGED notOutbound
ObReaderCloses == OutboundReaderCloses /\ UNCHANGED notOutbound

OutboundInit == RdvInit /\ val_args = NoArgs /\ ClientIdle /\ AloneIdle

OutboundNext ==
    \/ ObBegin
    \/ ObCheck
    \/ ObTcp
    \/ ObHello
    \/ ObReply
    \/ ObRecheck
    \/ ObRegister
    \/ ObStartReader
    \/ ObInbound
    \/ ObReaderCloses

SpecOutbound == OutboundInit /\ [][OutboundNext]_vars

\* the HELLO of attempt i was written and answered by something other than
\* HELLO_OK
Refused(i) ==
    /\ ob_atts[i].hello_sent
    /\ ob_atts[i].reply \notin {"none", "HELLO_OK"}

MaxIncoming == 2

\* the connections a message can arrive on
IncomingConns == {1, 2}

\* what a JSON field can hold, as far as the handlers tell values apart:
\* payload and dst a string or a number; require_ack true, false, absent,
\* or a non-empty string
FieldKinds == {"str", "number"}
RequireAckValues == {"true", "false", "missing", "text"}

IncomingMessages(n) ==
    [type : {"SEND", "PUB"}, msg_id : {n}, payload : FieldKinds, dst : FieldKinds,
     require_ack : RequireAckValues, conn : IncomingConns]

\* `require_ack = message.get("require_ack", True)` under `if require_ack:`
RequireAck(m) == m.require_ack \in {"true", "missing", "text"}

IncomingEvent(n, what, msg_id, conn) == [n |-> n, what |-> what, msg_id |-> msg_id, conn |-> conn]

\* `payload[:40] if len(payload) > 40 else payload`, evaluated for the log
\* line before anything else is done: len() of a number raises TypeError
PreviewRaises(m) == m.payload # "str"

\* P2PClient._on_message_received: `dst == "*"`, then `dst.startswith("#")`,
\* which raises AttributeError for a dst that is no string
CallbackRaises(m) == m.dst # "str"

\* _send_ack: send_json(ack) on the connection the message came in on
SendAck(n, m) == IncomingEvent(n, "ack", m.msg_id, m.conn)

\* _handle_send: the record, the callback, the ACK if asked for; an
\* exception leaves the handler where it is raised
HandleSend(n, m) ==
    IF PreviewRaises(m) THEN UNCHANGED <<in_history, in_log>>
    ELSE /\ in_history' = Append(in_history, m.msg_id)
         /\ in_log' = in_log
                \o <<IncomingEvent(n, "record", m.msg_id, m.conn),
                     IncomingEvent(n, "callback", m.msg_id, m.conn)>>
                \o (IF ~CallbackRaises(m) /\ RequireAck(m) THEN <<SendAck(n, m)>> ELSE <<>>)

\* _handle_pub: the record and the callback
HandlePub(n, m) ==
    IF PreviewRaises(m) THEN UNCHANGED <<in_history, in_log>>
    ELSE /\ in_history' = Append(in_history, m.msg_id)
         /\ in_log' = in_log
                \o <<IncomingEvent(n, "record", m.msg_id, m.conn),
                     IncomingEvent(n, "callback", m.msg_id, m.conn)>>

\* handle_incoming for a SEND or a PUB
HandleIncoming ==
    /\ Len(in_msgs) < MaxIncoming
    /\ \E m \in IncomingMessages(Len(in_msgs) + 1) :
          /\ in_msgs' = Append(in_msgs, m)
          /\ IF m.type = "SEND" THEN HandleSend(Len(in_msgs) + 1, m)
             ELSE HandlePub(Len(in_msgs) + 1, m)
    /\ UNCHANGED notIncoming

IncomingInit == RdvInit /\ val_args = NoArgs /\ ClientIdle /\ AloneIdle

IncomingNext == HandleIncoming

SpecIncoming == IncomingInit /\ [][IncomingNext]_vars

\* what the handlers did for the n-th message, in order
IncomingEventsOf(n) == SelectSeq(in_log, LAMBDA e : e.n = n)

\* what the claim has the router do for a message
IncomingDue(n, m) ==
    <<IncomingEvent(n, "record", m.msg_id, m.conn),
      IncomingEvent(n, "callback", m.msg_id, m.conn)>>
        \o (IF m.type = "SEND" /\ RequireAck(m) THEN <<SendAck(n, m)>> ELSE <<>>)

\* C31 (as stated): for every inbound SEND the router appends a record to
\* the inbound history, then invokes the message callback once, then sends
\* an ACK with the same msg_id on the same connection if and only if
\* require_ack is true; for every inbound PUB it records, invokes the
\* callback once and sends no ACK.
C31_AsStated ==
    \A n \in 1..Len(in_msgs) : IncomingEventsOf(n) = IncomingDue(n, in_msgs[n])

\* a SEND that asks for an ACK was handled: nothing was recorded, the
\* callback was not invoked and no ACK was sent
C31_NothingDone ==
    \E n \in 1..Len(in_msgs) :
        /\ in_msgs[n].type = "SEND"
        /\ in_msgs[n].require_ack = "true"
        /\ IncomingEventsOf(n) = <<>>

\* what holds: the handlers never do anything out of order, nothing twice,
\* never an ACK for a PUB or for a SEND that declines it, and never an ACK
\* on another connection or with another msg_id
C31_NeverMoreThanDue ==
    \A n \in 1..Len(in_msgs) : IsPrefix(IncomingEventsOf(n), IncomingDue(n, in_msgs[n]))

(***************************************************************************)
(* SpecLife: one established connection from start_reader to its close     *)
(* (client/peer_connection.py, with _handle_bye of the router and          *)
(* _on_connection_closed of the orchestrator).  The reader thread, the     *)
(* ping thread of an outbound connection and the BYE timer run side by     *)
(* side; close() is made of the steps of SpecClose.  The threads are       *)
(* scheduled fairly; the remote end and the network are not.               *)
(***************************************************************************)
LifePeer == "bob@CIC"

\* what the remote end can write as one frame: a BYE, a BYE_OK, another
\* well-formed message, a line that is not JSON, more than 32 KiB without
\* a newline
RemoteFrames == {"BYE", "BYE_OK", "SEND", "garbled", "oversized"}

lifeThreads == <<lf_outbound, lf_reader, lf_ping, lf_timers>>
lifeRemote == <<lf_remote, lf_wire, lf_sent>>

\* a thread calls close(): `if self._stop_event.is_set(): return`
LifeCloseTest(t) ==
    /\ cc_pc[t] = "out"
    /\ cc_pc' = ClosePcAt(t, IF cc_stop THEN "out" ELSE "tested")
    /\ UNCHANGED <<cc_stop, cc_calls, cc_socket_closes, cc_on_closed>>

\* the connection is registered and started: _handle_inbound_socket
\* (inbound, the table entry CONNECTED by the PeerServer) or connect_to_peer
\* (outbound, the table entry as discovery left it), then start_reader
LifeEstablish ==
    /\ lf_reader = "unstarted"
    /\ \E outbound \in BOOLEAN :
          /\ lf_outbound' = outbound
          /\ lf_ping' = IF outbound THEN "waiting" ELSE "none"
          /\ peer_table' = UpsertPeer(peer_table,
                 PeerInfo(LifePeer, "10.0.0.2", 6000, "CIC",
                          IF outbound THEN "DISCOVERED" ELSE "CONNECTED", AwareTime(0)))
    /\ lf_map' = TRUE
    /\ lf_reader' = "head"
    /\ UNCHANGED <<lf_timers, lifeRemote, lf_seen, lf_log, closeVars, notLife>>

\* the remote end writes a frame
LifeRemoteWrites ==
    /\ lf_reader # "unstarted"
    /\ lf_remote = "open"
    /\ lf_sent < MaxFrames
    /\ \E f \in RemoteFrames : lf_wire' = Append(lf_wire, f)
    /\ lf_sent' = lf_sent + 1
    /\ UNCHANGED <<lf_remote, lifeThreads, lf_map, lf_seen, lf_log, tableVars, closeVars, notLife>>

\* the remote end closes its socket (end of stream behind what it wrote) or
\* the connection is reset
LifeRemoteCloses ==
    /\ lf_reader # "unstarted"
    /\ lf_remote = "open"
    /\ \E how \in {"eof", "reset"} :
          /\ lf_remote' = how
          /\ lf_wire' = Append(lf_wire, how)
    /\ UNCHANGED <<lf_sent, lifeThreads, lf_map, lf_seen, lf_log, tableVars, closeVars, notLife>>

\* _loop: `while not self._stop_event.is_set()`
LoopHead ==
    /\ lf_reader = "head"
    /\ lf_reader' = IF cc_stop THEN "finally" ELSE "recv"
    /\ UNCHANGED <<lf_outbound, lf_ping, lf_timers, lifeRemote, lf_map, lf_seen, lf_log,
                   tableVars, closeVars, notLife>>

\* _handle_bye on the reader thread: send_json(BYE_OK), whose failed write
\* makes _send_raw call close() there and then; the Timer is started after
HandleBye(write_ok) ==
    IF write_ok
    THEN /\ lf_log' = Append(lf_log, "bye_ok")
         /\ lf_timers' = lf_timers + 1
         /\ lf_reader' = "head"
         /\ UNCHANGED closeVars
    ELSE /\ lf_log' = Append(lf_log, "bye_ok_failed")
         /\ LifeCloseTest("reader")
         /\ lf_reader' = "bye_close"
         /\ UNCHANGED lf_timers

\* _loop with what _recv_line meets next.  End of stream: an empty line,
\* `continue` (the stream stays at its end).  A reset: OSError, break.  More
\* than 32 KiB: ValueError, which only the finally sees.  A line that is
\* not JSON: a warning, `continue`.  A BYE goes to _handle_bye; a BYE_OK and
\* any other message change nothing here
LoopRecv ==
    /\ lf_reader = "recv"
    /\ cc_socket_closes = 0
    /\ lf_wire # <<>>
    /\ LET e == Head(lf_wire) IN
          /\ lf_seen' = lf_seen \cup {e}
          /\ lf_wire' = IF e \in {"eof", "reset"} THEN lf_wire ELSE Tail(lf_wire)
          /\ CASE e = "BYE" -> \E write_ok \in BOOLEAN : HandleBye(write_ok)
               [] e \in {"reset", "oversized"} ->
                     lf_reader' = "finally" /\ UNCHANGED <<lf_timers, lf_log, closeVars>>
               [] OTHER ->
                     lf_reader' = "head" /\ UNCHANGED <<lf_timers, lf_log, closeVars>>
    /\ UNCHANGED <<lf_outbound, lf_ping, lf_remote, lf_sent, lf_map, tableVars, notLife>>

\* recv on a socket another thread has shut down and closed: OSError, break
LoopSocketGone ==
    /\ lf_reader = "recv"
    /\ cc_socket_closes > 0
    /\ lf_reader' = "finally"
    /\ UNCHANGED <<lf_outbound, lf_ping, lf_timers, lifeRemote, lf_map, lf_seen, lf_log,
                   tableVars, closeVars, notLife>>

\* recv with nothing to read: socket.timeout in the end, `continue`
LoopTimeout ==
    /\ lf_reader = "recv"
    /\ cc_socket_closes = 0
    /\ lf_wire = <<>>
    /\ lf_reader' = "head"
    /\ UNCHANGED <<lf_outbound, lf_ping, lf_timers, lifeRemote, lf_map, lf_seen, lf_log,
                   tableVars, closeVars, notLife>>

\* _handle_bye after the close() its failed write made has returned:
\* threading.Timer(0.5, connection.close).start()
LoopByeResume ==
    /\ lf_reader = "bye_close"
    /\ cc_pc["reader"] = "out"
    /\ lf_timers' = lf_timers + 1
    /\ lf_reader' = "head"
    /\ UNCHANGED <<lf_outbound, lf_ping, lifeRemote, lf_map, lf_seen, lf_log,
                   tableVars, closeVars, notLife>>

\* _loop: `finally: self.close()`
LoopFinally ==
    /\ lf_reader = "finally"
    /\ LifeCloseTest("reader")
    /\ lf_reader' = "finally_close"
    /\ UNCHANGED <<lf_outbound, lf_ping, lf_timers, lifeRemote, lf_map, lf_seen, lf_log,
                   tableVars, notLife>>

\* the close() of the finally has returned: the reader thread ends
LoopEnds ==
    /\ lf_reader = "finally_close"
    /\ cc_pc["reader"] = "out"
    /\ lf_reader' = "done"
    /\ UNCHANGED <<lf_outbound, lf_ping, lf_timers, lifeRemote, lf_map, lf_seen, lf_log,
                   tableVars, closeVars, notLife>>

\* a BYE timer fires: connection.close() on the timer thread
TimerFires ==
    /\ lf_timers > 0
    /\ LifeCloseTest("orchestrator")
    /\ lf_timers' = lf_timers - 1
    /\ UNCHANGED <<lf_outbound, lf_reader, lf_ping, lifeRemote, lf_map, lf_seen, lf_log,
                   tableVars, notLife>>

\* _ping_loop: the stop flag is not set, _send_ping writes to a connection
\* whose remote end is gone, sendall raises OSError and _send_raw calls
\* close() on the ping thread
PingFails ==
    /\ lf_ping = "waiting"
    /\ ~cc_stop
    /\ lf_remote # "open"
    /\ LifeCloseTest("ping")
    /\ lf_ping' = "closing"
    /\ UNCHANGED <<lf_outbound, lf_reader, lf_timers, lifeRemote, lf_map, lf_seen, lf_log,
                   tableVars, notLife>>

\* _ping_loop ends: its close() has returned (through the RuntimeError
\* _send_ping swallows), or it finds the stop flag set
PingEnds ==
    /\ \/ lf_ping = "closing" /\ cc_pc["ping"] = "out"
       \/ lf_ping = "waiting" /\ cc_stop
    /\ lf_ping' = "done"
    /\ UNCHANGED <<lf_outbound, lf_reader, lf_timers, lifeRemote, lf_map, lf_seen, lf_log,
                   tableVars, closeVars, notLife>>

\* close(), past its test: the flag, the join of the ping thread, the socket
LifeCloseStep ==
    /\ \E t \in Closers :
          \/ CloseSet(t) /\ UNCHANGED lf_log
          \/ CloseJoin(t) /\ UNCHANGED lf_log
          \/ CloseSocket(t) /\ lf_log' = Append(lf_log, "socket_closed")
    /\ UNCHANGED <<lifeThreads, lifeRemote, lf_map, lf_seen, tableVars, notLife>>

\* close(): self._on_closed(self), which is _on_connection_closed: the
\* peer_id is popped from the map and the peer marked STALE
LifeOnClosed ==
    /\ \E t \in Closers : CloseNotify(t)
    /\ lf_map' = FALSE
    /\ peer_table' = MarkStale(peer_table, LifePeer)
    /\ lf_log' = Append(lf_log, "on_closed")
    /\ UNCHANGED <<lifeThreads, lifeRemote, lf_seen, notLife>>

LifeInit == RdvInit /\ val_args = NoArgs /\ ClientIdle /\ AloneIdle

\* the steps of the reader thread
LifeReader ==
    \/ LoopHead
    \/ LoopRecv
    \/ LoopSocketGone
    \/ LoopTimeout
    \/ LoopByeResume
    \/ LoopFinally
    \/ LoopEnds

LifeNext ==
    \/ LifeEstablish
    \/ LifeRemoteWrites
    \/ LifeRemoteCloses
    \/ LifeReader
    \/ TimerFires
    \/ PingFails
    \/ PingEnds
    \/ LifeCloseStep
    \/ LifeOnClosed

\* every thread that can take a step takes one in the end; nothing is asked
\* of the remote end or of the network
LifeFairness ==
    /\ WF_vars(LifeReader)
    /\ WF_vars(TimerFires)
    /\ WF_vars(PingEnds)
    /\ WF_vars(LifeCloseStep)
    /\ WF_vars(LifeOnClosed)

SpecLife == LifeInit /\ [][LifeNext]_vars /\ LifeFairness

\* the connection is CLOSED: its socket is closed and the map no longer
\* holds it
LifeClosed == cc_socket_closes > 0 /\ ~lf_map

\* no thread of the connection will take another step
LifeAtRest ==
    /\ lf_reader = "done"
    /\ lf_ping \in {"none", "done"}
    /\ lf_timers = 0
    /\ NobodyClosing

\* a BYE_OK is written only while the socket is open: never after a close
ByeOkBeforeClose ==
    \A i, j \in 1..Len(lf_log) :
        (lf_log[i] = "socket_closed" /\ lf_log[j] = "bye_ok") => j < i

\* the reader takes a BYE_OK off the stream
ByeOkReceived == lf_reader = "recv" /\ lf_wire # <<>> /\ Head(lf_wire) = "BYE_OK" /\ lf_wire' = Tail(lf_wire)

\* C32 (as stated): after a BYE is received on a connection, BYE_OK is
\* written on it before it is closed, and the connection is in the end
\* closed and removed from the live-connections map, also when the write of
\* BYE_OK fails; a received BYE_OK changes no state.
C32_AsStated ==
    /\ []ByeOkBeforeClose
    /\ [][ByeOkReceived => UNCHANGED <<lf_map, lf_timers, lf_log, lf_ping, tableVars, closeVars>>]_vars
    /\ ("BYE" \in lf_seen) ~> LifeClosed

\* a BYE was received and answered, every thread of the connection has
\* ended and every timer fired, and the connection is still in the map with
\* its socket open and its stop flag set
C32_LeftOpenAfterBye ==
    /\ "BYE" \in lf_seen
    /\ LifeAtRest
    /\ cc_stop
    /\ lf_map
    /\ cc_socket_closes = 0

\* what holds: on a connection with no ping thread (an inbound one) a BYE
\* always ends in the connection closed and out of the map, and this also
\* when the write of BYE_OK fails
C32_InboundClosedAfterBye ==
    /\ []ByeOkBeforeClose
    /\ [][ByeOkReceived => UNCHANGED <<lf_map, lf_timers, lf_log, lf_ping, tableVars, closeVars>>]_vars
    /\ ("BYE" \in lf_seen /\ ~lf_outbound) ~> LifeClosed

\* C34 (as stated): a frame received on an established connection that
\* is oversized or is not valid JSON tears the connection down: it is in
\* the end closed and removed from the live-connections map.
C34_AsStated ==
    ("garbled" \in lf_seen \/ "oversized" \in lf_seen) ~> LifeClosed

\* a line that is not JSON was received on an inbound connection; the
\* remote end has written all it will and keeps its socket open, the reader
\* waits for the next line, and nobody has closed or will close the
\* connection
C34_GarbledPassedOver ==
    /\ "garbled" \in lf_seen
    /\ ~lf_outbound
    /\ lf_remote = "open" /\ lf_sent = MaxFrames /\ lf_wire = <<>>
    /\ lf_reader = "recv"
    /\ lf_timers = 0 /\ NobodyClosing
    /\ ~cc_stop /\ lf_map /\ cc_socket_closes = 0

\* what holds: an oversized frame on a connection with no ping thread
\* always ends in the connection closed and out of the map
C34_OversizedInboundClosed ==
    ("oversized" \in lf_seen /\ ~lf_outbound) ~> LifeClosed

\* what does not hold, the other defects set aside: on a connection with no
\* ping thread whose remote end stays open, a line that is not JSON ends in
\* the connection closed.  The reader goes back to recv and stays there.
C34_GarbledInboundClosed ==
    ([](~lf_outbound /\ lf_remote = "open")) => (("garbled" \in lf_seen) ~> LifeClosed)

\* C35 (as stated): whenever the remote end closes the socket of an
\* established connection and the reader sees the end of the stream, the
\* connection reaches CLOSED in the end: the reader loop has ended,
\* on-closed has run, the peer_id is out of the live-connections map and the
\* peer is STALE.
C35_AsStated ==
    ("eof" \in lf_seen)
        ~> (/\ lf_reader = "done"
            /\ cc_on_closed > 0
            /\ ~lf_map
            /\ peer_table[LifePeer].status = "STALE")

\* the reader of an inbound connection has seen the end of the stream and
\* is back in recv, which returns the end of the stream again at once; no
\* BYE came, no thread has called close(), and the peer is still CONNECTED
\* and in the map
C35_ReaderSpins ==
    /\ "eof" \in lf_seen
    /\ ~lf_outbound
    /\ "BYE" \notin lf_seen
    /\ lf_reader = "recv"
    /\ lf_timers = 0 /\ NobodyClosing
    /\ ~cc_stop /\ lf_map /\ cc_socket_closes = 0
    /\ peer_table[LifePeer].status = "CONNECTED"

\* what holds: a reset of the connection (OSError in recv) on a connection
\* with no ping thread ends with the reader loop over, on-closed run, the
\* peer out of the map and STALE
C35_ResetInboundClosed ==
    ("reset" \in lf_seen /\ ~lf_outbound)
        ~> (lf_reader = "done" /\ cc_on_closed > 0 /\ ~lf_map
            /\ peer_table[LifePeer].status = "STALE")

\* C39 (as stated): every connection whose close has begun (its stop
\* flag is set) has in the end its socket closed and is removed from the
\* live-connections map, whichever thread began the close, the connection's
\* own ping thread after a failed PING write included.
C39_AsStated == cc_stop ~> LifeClosed

\* the ping thread began the close after a PING it could not write; every
\* thread of the connection has ended, no BYE was ever received, and the
\* connection is in the map with its stop flag set and its socket open
C39_StopSetForever ==
    /\ LifeAtRest
    /\ lf_ping = "done"
    /\ "BYE" \notin lf_seen
    /\ cc_stop
    /\ lf_map
    /\ cc_socket_closes = 0

\* what holds: a close begun on a connection with no ping thread always
\* ends with the socket closed and the connection out of the map
C39_InboundCloseCompletes == (cc_stop /\ ~lf_outbound) ~> LifeClosed

(***************************************************************************)
(* SpecLive: P2PClient.discover_once next to the connections that open     *)
(* and close (client/p2p_client.py, client/peer_table.py).  lv_map is     *)
(* P2PClient.connections: for each peer_id that has a connection, "entry"  *)
(* when the connection's peer is the PeerInfo kept in the table, "copy"    *)
(* when it is a PeerInfo of its own.  Connections are followed for one    *)
(* peer, LivePeers; the other is known from DISCOVER results only.         *)
(***************************************************************************)
LivePeers == {"bob@CIC"}

HasConnection(id) == id \in DOMAIN lv_map

\* discover_once: after the table is brought up to date, connect_to_peer
\* for each new peer that has no connection; connected are those whose
\* handshake succeeds.  A TypeError out of mark_missing_as_stale ends the
\* pass before any connect.
LiveDiscoverOnce(ok, result, connected) ==
    LET new_peers == {id \in result \ {LocalPeerId} : peer_table[id] = NoPeer}
    IN /\ connected \subseteq {id \in new_peers : ~HasConnection(id)}
       /\ DiscoverOnce(ok, result)
       /\ lv_map' = IF ok /\ ~dc_last'.raised
                    THEN [id \in DOMAIN lv_map \cup connected |->
                             IF id \in connected THEN "entry" ELSE lv_map[id]]
                    ELSE lv_map

\* PeerServer._handle_connection after a HELLO answered with HELLO_OK, and
\* _handle_inbound_socket: the peer is upserted as CONNECTED, then the
\* socket is turned away when the peer has a connection, registered
\* otherwise
LiveInbound(peer_id) ==
    LET peer == InboundPeerInfo(peer_id, dc_now)
        is_new == peer_table[peer_id] = NoPeer
        upserted == UpsertPeer(peer_table, peer)
    IN /\ dc_order' = AppendNew(dc_order, {peer_id})
       /\ IF HasConnection(peer_id)
          THEN /\ peer_table' = upserted
               /\ lv_map' = lv_map
          ELSE /\ peer_table' = UpsertPeer(upserted, peer)
               /\ lv_map' = [id \in DOMAIN lv_map \cup {peer_id} |->
                                IF id # peer_id THEN lv_map[id]
                                ELSE IF is_new THEN "entry" ELSE "copy"]
       /\ UNCHANGED <<dc_now, dc_last>>

\* a PONG on a connection: _handle_pong writes connection.peer.last_seen_at
LivePong(peer_id) ==
    /\ HasConnection(peer_id)
    /\ IF lv_map[peer_id] = "entry"
       THEN DiscoverPong(peer_id)
       ELSE UNCHANGED <<peer_table, dc_now, dc_order, dc_last>>
    /\ UNCHANGED lv_map

\* _on_connection_closed
LiveOnClosed(peer_id) ==
    /\ HasConnection(peer_id)
    /\ lv_map' = [id \in DOMAIN lv_map \ {peer_id} |-> lv_map[id]]
    /\ peer_table' = MarkStale(peer_table, peer_id)
    /\ UNCHANGED <<dc_now, dc_order, dc_last>>

LvDiscoverOnce ==
    /\ \E ok \in BOOLEAN, result \in SUBSET (PeerIds \cup {LocalPeerId}),
          connected \in SUBSET LivePeers : LiveDiscoverOnce(ok, result, connected)
    /\ UNCHANGED notLive

LvInbound == (\E peer_id \in LivePeers : LiveInbound(peer_id)) /\ UNCHANGED notLive

LvPong ==
    /\ \E peer_id \in LivePeers : LivePong(peer_id) /\ peer_table' # peer_table
    /\ UNCHANGED notLive

LvOnClosed == (\E peer_id \in LivePeers : LiveOnClosed(peer_id)) /\ UNCHANGED notLive

\* a discovery interval goes by
LvTick ==
    /\ dc_now < MaxDiscoverTicks * discovery_interval
    /\ dc_now' = dc_now + discovery_interval
    /\ UNCHANGED <<peer_table, dc_order, dc_last, lv_map, notLive>>

LiveInit == RdvInit /\ val_args = NoArgs /\ ClientIdle /\ AloneIdle

LiveNext == LvDiscoverOnce \/ LvInbound \/ LvPong \/ LvOnClosed \/ LvTick

SpecLive == LiveInit /\ [][LiveNext]_vars

\* C38 (as stated): a peer that has a connection in the live-connections
\* map is never set to STALE by a discovery pass, neither by upsert_peer nor
\* by mark_missing_as_stale; its status becomes STALE only in the step that
\* closes its connection and takes it out of the map.
C38_AsStated ==
    [][\A id \in PeerIds :
          (HasConnection(id) /\ peer_table[id].status # "STALE" /\ peer_table'[id].status = "STALE")
             => id \notin DOMAIN lv_map']_vars

\* a discovery pass has just ended that left STALE a peer whose connection
\* is in the map: the peer was not in the result and was last seen more
\* than 2 x discovery_interval ago
C38_LiveSetStale ==
    /\ dc_last.ok /\ ~dc_last.raised /\ dc_last.at = dc_now
    /\ \E id \in PeerIds :
          /\ HasConnection(id)
          /\ id \notin dc_last.result
          /\ peer_table[id].status = "STALE"
          /\ peer_table[id].last_seen_at.aware
          /\ dc_now - peer_table[id].last_seen_at.at > 2 * discovery_interval

\* what holds of a discovery pass: a peer with a connection that is in the
\* DISCOVER result, or was last seen within 2 x discovery_interval, keeps
\* its status
C38_SeenOrRecentKept ==
    [][dc_last'.n # dc_last.n =>
          \A id \in PeerIds :
              (/\ HasConnection(id)
               /\ peer_table[id].status = "CONNECTED"
               /\ \/ id \in dc_last'.result
                  \/ /\ peer_table[id].last_seen_at.aware
                     /\ dc_now - peer_table[id].last_seen_at.at <= 2 * discovery_interval)
                 => peer_table'[id].status = "CONNECTED"]_vars

(***************************************************************************)
(* SpecWork: two handler threads of the rendezvous service at work on one  *)
(* PeerDatabase (rendezvous/peer_db.py), one statement at a time.  _sweep  *)
(* and remove_peer build a new list and then assign it to self.peers;      *)
(* _save builds its payload, then takes _lock for the write to the         *)
(* temporary file and the replace.  Nothing but that write is under the    *)
(* lock.                                                                   *)
(***************************************************************************)
MaxRequests == 2
Workers == {1, 2}

\* the clients that register and unregister, and the ttl they ask for
WorkClients == {<<"10.0.0.1", NsCIC>>, <<"10.0.0.2", NsCIC>>}
WorkTtls == {PyIntV(1)}

NoRequest == [cmd |-> "NONE", ip |-> "", namespace |-> <<>>, peer |-> <<>>]

\* the thread goes on to pc, holding list
WorkGoes(w, pc, list) ==
    /\ wk_pc' = [wk_pc EXCEPT ![w] = pc]
    /\ wk_local' = [wk_local EXCEPT ![w] = list]

\* (ip, namespace) of a record of rdv_regs is what req unregisters
Unregisters(req, g) == req.cmd = "UNREGISTER" /\ g.ip = req.ip /\ g.namespace = req.namespace

\* handle() takes up a request: REGISTER builds its PeerRecord and calls
\* add_peer, DISCOVER calls get_peers, UNREGISTER calls remove_peer
WorkBegin(w, req) ==
    /\ wk_pc[w] = "idle"
    /\ wk_n < MaxRequests
    /\ wk_n' = wk_n + 1
    /\ wk_req' = [wk_req EXCEPT ![w] = req]
    /\ WorkGoes(w, IF req.cmd = "UNREGISTER" THEN "remove" ELSE "sweep", <<>>)
    /\ rdv_regs' = {g \in rdv_regs : ~Unregisters(req, g)}
    /\ UNCHANGED <<db_peers, db_file, rdv_now, wk_lock, wk_tmp>>

\* _sweep, the list comprehension over self.peers
SweepBuilds(w) ==
    /\ wk_pc[w] = "sweep"
    /\ WorkGoes(w, "sweep_assign", Sweep(db_peers, rdv_now))
    /\ UNCHANGED <<db_peers, db_file, rdv_now, rdv_regs, wk_req, wk_lock, wk_tmp, wk_n>>

\* _sweep, self.peers = ...; get_peers then returns, add_peer goes on
SweepAssigns(w) ==
    /\ wk_pc[w] = "sweep_assign"
    /\ db_peers' = wk_local[w]
    /\ WorkGoes(w, IF wk_req[w].cmd = "REGISTER" THEN "append" ELSE "idle", <<>>)
    /\ wk_req' = IF wk_req[w].cmd = "REGISTER" THEN wk_req
                 ELSE [wk_req EXCEPT ![w] = NoRequest]
    /\ UNCHANGED <<db_file, rdv_now, rdv_regs, wk_lock, wk_tmp, wk_n>>

\* add_peer: self.peers.append(peer)
AddPeerAppends(w) ==
    /\ wk_pc[w] = "append"
    /\ db_peers' = Append(db_peers, wk_req[w].peer[1])
    /\ WorkGoes(w, "payload", <<>>)
    /\ UNCHANGED <<db_file, rdv_now, rdv_regs, wk_req, wk_lock, wk_tmp, wk_n>>

\* remove_peer, the list comprehension over self.peers
RemoveBuilds(w) ==
    /\ wk_pc[w] = "remove"
    /\ WorkGoes(w, "remove_assign",
                RemovePeer(db_peers, wk_req[w].ip, PyStr(wk_req[w].namespace)))
    /\ UNCHANGED <<db_peers, db_file, rdv_now, rdv_regs, wk_req, wk_lock, wk_tmp, wk_n>>

\* remove_peer, self.peers = ...
RemoveAssigns(w) ==
    /\ wk_pc[w] = "remove_assign"
    /\ db_peers' = wk_local[w]
    /\ WorkGoes(w, "payload", <<>>)
    /\ UNCHANGED <<db_file, rdv_now, rdv_regs, wk_req, wk_lock, wk_tmp, wk_n>>

\* _save: the payload is built from self.peers before the lock is taken
SavePayload(w) ==
    /\ wk_pc[w] = "payload"
    /\ WorkGoes(w, "lock", Save(db_peers))
    /\ UNCHANGED <<db_peers, db_file, rdv_now, rdv_regs, wk_req, wk_lock, wk_tmp, wk_n>>

\* _save: with self._lock, the payload is written to the temporary file
SaveWrites(w) ==
    /\ wk_pc[w] = "lock"
    /\ wk_lock = 0
    /\ wk_lock' = w
    /\ wk_tmp' = wk_local[w]
    /\ WorkGoes(w, "replace", <<>>)
    /\ UNCHANGED <<db_peers, db_file, rdv_now, rdv_regs, wk_req, wk_n>>

\* _save: os.replace, the lock is released, and handle() answers OK.  The
\* REGISTER is entered in rdv_regs unless an UNREGISTER of its (ip,
\* namespace) is under way.
SaveReplaces(w) ==
    LET req == wk_req[w]
        under_way == \E u \in Workers : Unregisters(wk_req[u], RegKey(req.peer[1]))
    IN /\ wk_pc[w] = "replace"
       /\ db_file' = wk_tmp
       /\ wk_lock' = 0
       /\ rdv_regs' = IF req.cmd = "REGISTER" /\ ~under_way
                      THEN rdv_regs \cup {RegKey(req.peer[1])}
                      ELSE rdv_regs
       /\ wk_req' = [wk_req EXCEPT ![w] = NoRequest]
       /\ WorkGoes(w, "idle", <<>>)
       /\ UNCHANGED <<db_peers, rdv_now, wk_tmp, wk_n>>

WorkRequests ==
    {[cmd |-> "REGISTER", ip |-> c[1], namespace |-> c[2],
      peer |-> <<NewRecord(c[1], ObservedPort, PyStr(c[2]), Alice, PyIntV(6000), ttl, rdv_now)>>] :
         c \in WorkClients, ttl \in WorkTtls}
    \cup {[cmd |-> "UNREGISTER", ip |-> c[1], namespace |-> c[2], peer |-> <<>>] : c \in WorkClients}
    \cup {[cmd |-> "DISCOVER", ip |-> "10.0.0.3", namespace |-> <<>>, peer |-> <<>>]}

WkBegin == (\E w \in Workers, req \in WorkRequests : WorkBegin(w, req))
              /\ UNCHANGED <<rdv_req, rdv_resp, rdv_found, notWork>>
WkSweepBuilds == (\E w \in Workers : SweepBuilds(w))
                    /\ UNCHANGED <<rdv_req, rdv_resp, rdv_found, notWork>>
WkSweepAssigns == (\E w \in Workers : SweepAssigns(w))
                     /\ UNCHANGED <<rdv_req, rdv_resp, rdv_found, notWork>>
WkAppends == (\E w \in Workers : AddPeerAppends(w))
                /\ UNCHANGED <<rdv_req, rdv_resp, rdv_found, notWork>>
WkRemoveBuilds == (\E w \in Workers : RemoveBuilds(w))
                     /\ UNCHANGED <<rdv_req, rdv_resp, rdv_found, notWork>>
WkRemoveAssigns == (\E w \in Workers : RemoveAssigns(w))
                      /\ UNCHANGED <<rdv_req, rdv_resp, rdv_found, notWork>>
WkSavePayload == (\E w \in Workers : SavePayload(w))
                    /\ UNCHANGED <<rdv_req, rdv_resp, rdv_found, notWork>>
WkSaveWrites == (\E w \in Workers : SaveWrites(w))
                   /\ UNCHANGED <<rdv_req, rdv_resp, rdv_found, notWork>>
WkSaveReplaces == (\E w \in Workers : SaveReplaces(w))
                     /\ UNCHANGED <<rdv_req, rdv_resp, rdv_found, notWork>>

\* time passes on the rendezvous host
WkClock ==
    /\ RdvTick
    /\ UNCHANGED <<val_args, notRdv>>

WorkInit == RdvInit /\ val_args = NoArgs /\ ClientIdle /\ AloneIdle

WorkNext ==
    \/ WkBegin \/ WkSweepBuilds \/ WkSweepAssigns \/ WkAppends \/ WkRemoveBuilds
    \/ WkRemoveAssigns \/ WkSavePayload \/ WkSaveWrites \/ WkSaveReplaces \/ WkClock

SpecWork == WorkInit /\ [][WorkNext]_vars

\* the key of a record of the file, as RegKey gives it for a PeerRecord
FileKey(d) ==
    [ip |-> d.ip, port |-> d.port, name |-> d.name, namespace |-> d.namespace,
     ttl |-> d.ttl, t0 |-> FromIso(d.timestamp)]

InMemory(g) == \E i \in 1..Len(db_peers) : RegKey(db_peers[i]) = g
InFile(g) == \E i \in 1..Len(db_file) : FileKey(db_file[i]) = g
Unexpired(g) == ~(rdv_now - g.t0 > g.ttl)

\* C40 (as stated): under concurrent REGISTER, DISCOVER and UNREGISTER on
\* one PeerDatabase no update is lost: every REGISTER answered OK has its
\* record in the in-memory table and in the last persisted file until it
\* expires or is unregistered, for every interleaving of sweep, append,
\* remove and save.
C40_AsStated ==
    \A g \in rdv_regs : Unexpired(g) => InMemory(g) /\ InFile(g)

\* both threads are done, and a REGISTER that was answered OK, has not
\* expired and was not unregistered is neither in memory nor in the file
C40_UpdateLost ==
    /\ \A w \in Workers : wk_pc[w] = "idle"
    /\ \E g \in rdv_regs : Unexpired(g) /\ ~InMemory(g) /\ ~InFile(g)
====
